---- MODULE Spec2Model ----
(***************************************************************************)
(* Flashback cutscene player: the opcode interpreter (OpcodeInterpreter),  *)
(* the draw-list renderer (Canvas2DRenderer) and the navigation API of     *)
(* CutscenePlayer, as a state machine.                                     *)
(*                                                                         *)
(* The specifications share the state:                                     *)
(*   Spec      the player: a cutscene is loaded and then navigated with    *)
(*             nextFrame / prevFrame / goToFrame / reset / play / stop /   *)
(*             animation ticks, audio switched off;                        *)
(*   SpecExec  the interpreter alone: executeCommand applied to an open    *)
(*             command stream, one command per step;                       *)
(*   SpecColor the renderer's colour lookup applied to every colour byte;  *)
(*   SpecCmd   parseCMD on the bytes of CMD files;                         *)
(*   SpecPol   CutsceneLoader.parse on the bytes of POL files;             *)
(*   SpecLoad  CutsceneLoader.load, its two fetches in any order;          *)
(*   SpecAudio the player with its MidiPlayer: cutscene switching, synth   *)
(*             initialisation and music loads settling in any order;       *)
(*   SpecMusic SpecAudio with the synth's contents, the name of the last   *)
(*             load started and whether it overlapped an earlier one;      *)
(*   SpecIns   MidiPlayer.setChannelInstrument;                            *)
(*   SpecInsFile parseIns, loadInsFile and insToOpl3 on the bytes of INS   *)
(*             files;                                                      *)
(*   SpecInject the note offset MidiPlayer injects for one channel, at a   *)
(*             music load and at setChannelOctaveOffset;                   *)
(*   SpecGfx   one drawing call of the Graphics rasterizer on a prepared   *)
(*             framebuffer and clipping rectangle.                         *)
(***************************************************************************)
EXTENDS Integers, Sequences, FiniteSets, Bags, TLC

VARIABLES
    input,        \* the Cutscene handed to loadCutscene (immutable)
    interpreter,  \* CutscenePlayer.interpreter: NULL or the InterpreterState
    renderer,     \* CutscenePlayer.renderer: the Canvas2DRenderer fields
    framebuffer,  \* what the last render() painted, in paint order
    isPlaying,    \* CutscenePlayer.isPlaying
    animationId,  \* CutscenePlayer.animationId: TRUE when a callback is scheduled
    execLog,      \* history: the commands executed since the VM state was last reset
    threw,        \* history: TRUE once a command execution raised a TypeError
    lastOp,       \* history: the last API call and its argument
    call,         \* the arguments and environment of the call under test; in
                  \* SpecAudio the MidiPlayer and the promises in flight
    result        \* what the call returned; in SpecAudio the calls and
                  \* callbacks of the last step

vars == << input, interpreter, renderer, framebuffer, isPlaying, animationId,
           execLog, threw, lastOp, call, result >>

\* the variables Spec and SpecExec leave alone
callVars == << call, result >>

----------------------------------------------------------------------------
(* Bounds of the model *)

\* most subscenes in a script
MaxSubscenes == 2
\* longest draw list explored by SpecExec
MaxDrawn == 2

----------------------------------------------------------------------------
(* JavaScript helpers *)

NULL == [isNull |-> TRUE]

\* cmd.f ?? d : an absent (or undefined) optional field reads as the default
Opt(cmd, f, d) == IF f \in DOMAIN cmd THEN cmd[f] ELSE d

\* cmd.f !== undefined
Defined(cmd, f) == f \in DOMAIN cmd

RECURSIVE BitAnd(_, _)
BitAnd(a, b) ==
    IF a = 0 \/ b = 0 THEN 0
    ELSE (a % 2) * (b % 2) + 2 * BitAnd(a \div 2, b \div 2)

RECURSIVE BitXor(_, _)
BitXor(a, b) ==
    IF a = 0 THEN b
    ELSE IF b = 0 THEN a
    ELSE ((a + b) % 2) + 2 * BitXor(a \div 2, b \div 2)

RECURSIVE Pow2(_)
Pow2(n) == IF n = 0 THEN 1 ELSE 2 * Pow2(n - 1)

ShiftRight(a, n) == a \div Pow2(n)

----------------------------------------------------------------------------
(* Input files: POL palettes and shapes (parsePOL) *)

\* the 16-bit big-endian colour word at entry c of palette p of the test POLs:
\* 0x0RGB in the low 12 bits, and a high nibble the decoder must ignore
PalWord(p, c) ==
    LET R == IF p = 0 THEN c ELSE 15 - c
        G == IF p = 0 THEN 15 - c ELSE c
        B == IF p = 0 THEN (7 * c) % 16 ELSE (3 * c + 1) % 16
    IN  (c % 4) * 4096 + R * 256 + G * 16 + B

\* a POL file, as far as palettes and primitive colours go: the colour words
\* of each palette and, per shape, the colour byte of each primitive
PolA == [ paletteWords |-> [p \in 1..2 |-> [c \in 1..16 |-> PalWord(p - 1, c - 1)]],
          shapeColors  |-> << <<3, 19>>, <<35, 255>> >> ]

PolB == [ paletteWords |-> [p \in 1..1 |-> [c \in 1..16 |-> PalWord(1, c - 1)]],
          shapeColors  |-> << <<0, 16>> >> ]

PolFiles == {PolA, PolB}

\* useful only when a mutated decoder is substituted for DecodeColor
DecodeColorBy16(colorValue) ==
    [ r |-> BitAnd(ShiftRight(colorValue, 8), 15) * 16,
      g |-> BitAnd(ShiftRight(colorValue, 4), 15) * 16,
      b |-> BitAnd(colorValue, 15) * 16 ]

\* parsePOL: 16-bit Amiga colour (0x0RGB) to 8-bit RGB
DecodeColor(colorValue) ==
    [ r |-> BitAnd(ShiftRight(colorValue, 8), 15) * 17,
      g |-> BitAnd(ShiftRight(colorValue, 4), 15) * 17,
      b |-> BitAnd(colorValue, 15) * 17 ]

\* parsePOL: the palettes, 16 decoded colours each
parsePalettes(pol) ==
    [p \in DOMAIN pol.paletteWords |->
        [c \in 1..16 |-> DecodeColor(pol.paletteWords[p][c])]]

\* parsePOL / parseShape: shape ids are the indices 0, 1, ... of the shape table
parseShapes(pol) ==
    [i \in DOMAIN pol.shapeColors |->
        [ id |-> i - 1,
          primitives |-> [k \in DOMAIN pol.shapeColors[i] |->
                             [type |-> "polygon", color |-> pol.shapeColors[i][k]]] ]]

----------------------------------------------------------------------------
(* Input files: CMD command streams (parseCMD) *)

MarkCurPos == [op |-> "markCurPos"]
RefreshScreen(m) == [op |-> "refreshScreen", clearMode |-> m]
DrawShapeCmd(id) == [op |-> "drawShape", shapeId |-> id, x |-> 0, y |-> 0]
DrawShapeAtCmd(id, px, py) == [op |-> "drawShape", shapeId |-> id, x |-> px, y |-> py]
DrawShapeScaleCmd(id, z) ==
    [op |-> "drawShapeScale", shapeId |-> id, x |-> 0, y |-> 0,
     zoom |-> z, originX |-> 120, originY |-> 64]
DrawShapeScaleRotateCmd(id, z, a) ==
    [op |-> "drawShapeScaleRotate", shapeId |-> id, x |-> 0, y |-> 0,
     zoom |-> z, originX |-> 120, originY |-> 64, rotationA |-> a]
SetPaletteCmd(p, b) == [op |-> "setPalette", paletteNum |-> p, bufferNum |-> b]
PlainCmd(name) == [op |-> name]

\* the parsed command lists of the subscenes the scripts are made of; the
\* empty list is a subscene whose first byte is the end marker
CmdStreams ==
    { << >>,
      << SetPaletteCmd(0, 1), DrawShapeCmd(0), MarkCurPos,
         SetPaletteCmd(1, 1), DrawShapeCmd(1) >>,
      << MarkCurPos, RefreshScreen(0), SetPaletteCmd(1, 0), DrawShapeCmd(0),
         MarkCurPos, DrawShapeCmd(7), PlainCmd("nop") >>,
      << DrawShapeCmd(1), RefreshScreen(0), DrawShapeAtCmd(0, 5, -3),
         SetPaletteCmd(0, 0), MarkCurPos, DrawShapeScaleCmd(0, -40),
         SetPaletteCmd(9, 0) >>,
      << SetPaletteCmd(0, 1), DrawShapeCmd(0), SetPaletteCmd(1, 1) >>,
      << RefreshScreen(2), MarkCurPos, MarkCurPos,
         DrawShapeScaleRotateCmd(0, 0, 90) >> }

\* frame grouping in which a markCurPos closes the frame it ends
RECURSIVE GroupFramesMarkLast(_, _, _, _)
GroupFramesMarkLast(commands, i, frames, currentFrame) ==
    IF i > Len(commands)
    THEN IF Len(currentFrame) > 0
         THEN Append(frames, [commands |-> currentFrame])
         ELSE frames
    ELSE LET cmd == commands[i]
         IN  IF cmd.op = "markCurPos"
             THEN GroupFramesMarkLast(commands, i + 1,
                      Append(frames, [commands |-> Append(currentFrame, cmd)]), << >>)
             ELSE GroupFramesMarkLast(commands, i + 1, frames, Append(currentFrame, cmd))

\* frame grouping that starts the new frame empty, so the markCurPos that
\* separates two frames is in neither
RECURSIVE GroupFramesDropMark(_, _, _, _)
GroupFramesDropMark(commands, i, frames, currentFrame) ==
    IF i > Len(commands)
    THEN IF Len(currentFrame) > 0
         THEN Append(frames, [commands |-> currentFrame])
         ELSE frames
    ELSE LET cmd == commands[i]
         IN  IF cmd.op = "markCurPos" /\ Len(currentFrame) > 0
             THEN GroupFramesDropMark(commands, i + 1,
                              Append(frames, [commands |-> currentFrame]), << >>)
             ELSE GroupFramesDropMark(commands, i + 1, frames, Append(currentFrame, cmd))

\* parseCMD: group the commands of a subscene into frames; a markCurPos opens
\* a new frame unless the current one is still empty
RECURSIVE GroupFrames(_, _, _, _)
GroupFrames(commands, i, frames, currentFrame) ==
    IF i > Len(commands)
    THEN IF Len(currentFrame) > 0
         THEN Append(frames, [commands |-> currentFrame])
         ELSE frames
    ELSE LET cmd == commands[i]
         IN  IF cmd.op = "markCurPos" /\ Len(currentFrame) > 0
             THEN GroupFrames(commands, i + 1,
                              Append(frames, [commands |-> currentFrame]), <<cmd>>)
             ELSE GroupFrames(commands, i + 1, frames, Append(currentFrame, cmd))

\* parseCMD: the Script of a CMD file whose subscenes decode to `streams`
parseCMD(streams) ==
    [ subsceneCount |-> Len(streams),
      subscenes |-> [s \in DOMAIN streams |->
                        [id |-> s - 1, frames |-> GroupFrames(streams[s], 1, << >>, << >>)]] ]

\* the command lists of the subscenes of a CMD file: at least one subscene
\* (a zero subscene count means one implicit subscene)
RECURSIVE StreamLists(_)
StreamLists(n) ==
    IF n = 0 THEN { << >> }
    ELSE LET shorter == StreamLists(n - 1)
         IN  shorter \cup { Append(l, st) : l \in { x \in shorter : Len(x) = n - 1 },
                                             st \in CmdStreams }

\* CutsceneLoader.parse: the Cutscene built from one CMD and one POL file
parse(name, streams, pol) ==
    [ name |-> name, shapes |-> parseShapes(pol), palettes |-> parsePalettes(pol),
      script |-> parseCMD(streams) ]

Cutscenes ==
    { parse("TEST", streams, pol) :
        streams \in { l \in StreamLists(MaxSubscenes) : Len(l) >= 1 }, pol \in PolFiles }

----------------------------------------------------------------------------
(* Canvas2DRenderer *)

\* new Canvas2DRenderer(): the field initialisers
NewRenderer ==
    [ shapes |-> << >>, drawnShapes |-> << >>, auxShapes |-> << >>,
      palette |-> << >>, clearScreen |-> 1 ]

\* the shape map: ids present, and the shape stored under an id
ShapeIds(r) == DOMAIN r.shapes
ShapeOf(r, id) == r.shapes[id]

\* loadShapes: clear the map, then store every shape under its id (a later
\* shape with the same id replaces an earlier one)
loadShapes(r, shapes) ==
    LET ids == { shapes[i].id : i \in DOMAIN shapes }
        last(id) == CHOOSE i \in DOMAIN shapes :
                        /\ shapes[i].id = id
                        /\ \A j \in DOMAIN shapes : shapes[j].id = id => j <= i
    IN  [r EXCEPT !.shapes = [id \in ids |-> shapes[last(id)]]]

setPalette(r, palette) == [r EXCEPT !.palette = palette]

setClearScreen(r, clearScreen) == [r EXCEPT !.clearScreen = clearScreen]

\* push a DrawnShape on the draw list, and on the auxiliary list too when
\* clearScreen is non-zero (the same object is on both lists)
\* a push that puts every DrawnShape on the auxiliary list as well
PushDrawnOnBoth(r, drawn) ==
    [r EXCEPT !.drawnShapes = Append(@, drawn), !.auxShapes = Append(@, drawn)]

PushDrawn(r, drawn) ==
    [r EXCEPT !.drawnShapes = Append(@, drawn),
              !.auxShapes = IF r.clearScreen # 0 THEN Append(@, drawn) ELSE @]

\* a DrawnShape.  scale is kept in units of 1/512 and rotation in degrees
\* (units of pi/180), so both stay exact; `at` is the identity of the object:
\* the position in the execution log of the command that created it
DrawnShape(shapeId, x, y, scale, rotation, originX, originY, clearScreen, at) ==
    [ shapeId |-> shapeId, x |-> x, y |-> y, scale |-> scale, rotation |-> rotation,
      originX |-> originX, originY |-> originY, clearScreenAtDraw |-> clearScreen,
      at |-> at ]

\* drawShape without the lookup of the shape id
drawShapeUnguarded(r, shapeId, x, y, at) ==
    PushDrawn(r, DrawnShape(shapeId, x, y, 512, 0, 0, 0, r.clearScreen, at))

drawShape(r, shapeId, x, y, at) ==
    IF shapeId \notin ShapeIds(r)
    THEN r
    ELSE PushDrawn(r, DrawnShape(shapeId, x, y, 512, 0, 0, 0, r.clearScreen, at))

drawShapeScale(r, shapeId, x, y, zoom, originX, originY, at) ==
    IF shapeId \notin ShapeIds(r)
    THEN r
    ELSE PushDrawn(r, DrawnShape(shapeId, x, y, zoom + 512, 0, originX, originY,
                                 r.clearScreen, at))

drawShapeScaleRotate(r, shapeId, x, y, zoom, originX, originY, rotationA, at) ==
    IF shapeId \notin ShapeIds(r)
    THEN r
    ELSE PushDrawn(r, DrawnShape(shapeId, x, y, zoom + 512, rotationA, originX, originY,
                                 r.clearScreen, at))

\* clearDrawnShapes that empties both lists whatever clearScreen is
clearDrawnShapesBoth(r) == [r EXCEPT !.drawnShapes = << >>, !.auxShapes = << >>]

clearDrawnShapes(r) ==
    IF r.clearScreen = 0
    THEN [r EXCEPT !.drawnShapes = r.auxShapes]
    ELSE [r EXCEPT !.drawnShapes = << >>, !.auxShapes = << >>]

clearAllShapes(r) == [r EXCEPT !.drawnShapes = << >>, !.auxShapes = << >>]

\* the slot computed without masking the index to 5 bits
PaletteIndexNoMask(index, clearScreen) ==
    IF clearScreen = 0 THEN index + 16 ELSE index

\* getColorForClearScreen: the palette slot a colour index is read from
PaletteIndex(index, clearScreen) ==
    LET paletteIndex == BitAnd(index, 31)
    IN  IF clearScreen = 0 THEN BitAnd(paletteIndex + 16, 31) ELSE paletteIndex

Magenta == [r |-> 255, g |-> 0, b |-> 255]

\* colour lookup that samples the palette half of the clear flag in force
\* when the frame is rendered, not the one captured with the shape
getColorForCurrentClearScreen(r, index, clearScreen) ==
    LET paletteIndex == PaletteIndex(index, r.clearScreen)
    IN  IF paletteIndex + 1 \in DOMAIN r.palette
        THEN r.palette[paletteIndex + 1]
        ELSE Magenta

getColorForClearScreen(r, index, clearScreen) ==
    LET paletteIndex == PaletteIndex(index, clearScreen)
    IN  IF paletteIndex + 1 \in DOMAIN r.palette
        THEN r.palette[paletteIndex + 1]
        ELSE Magenta

\* renderShape: one paint operation per primitive, in primitive order
renderShape(r, shape, drawn) ==
    [k \in DOMAIN shape.primitives |->
        [ shapeId |-> drawn.shapeId, primitive |-> k, type |-> shape.primitives[k].type,
          x |-> drawn.x, y |-> drawn.y, scale |-> drawn.scale, rotation |-> drawn.rotation,
          originX |-> drawn.originX, originY |-> drawn.originY,
          color |-> getColorForClearScreen(r, shape.primitives[k].color,
                                           drawn.clearScreenAtDraw) ]]

\* render: clear to black, then paint every drawn shape whose id is in the
\* shape map, in draw order.  The framebuffer is represented by the sequence
\* of paint operations that produced it (the viewport mask is constant).
RECURSIVE renderFrom(_, _)
renderFrom(r, i) ==
    IF i > Len(r.drawnShapes) THEN << >>
    ELSE LET drawn == r.drawnShapes[i]
         IN  (IF drawn.shapeId \in ShapeIds(r)
              THEN renderShape(r, ShapeOf(r, drawn.shapeId), drawn)
              ELSE << >>) \o renderFrom(r, i + 1)

render(r) == renderFrom(r, 1)

\* dispose
dispose(r) == [r EXCEPT !.shapes = << >>, !.drawnShapes = << >>, !.auxShapes = << >>]

----------------------------------------------------------------------------
(* OpcodeInterpreter *)

Black == [r |-> 0, g |-> 0, b |-> 0]

createEmptyPalette == [i \in 1..32 |-> Black]

RECURSIVE countTotalFramesFrom(_, _)
countTotalFramesFrom(cutscene, s) ==
    IF s > Len(cutscene.script.subscenes) THEN 0
    ELSE Len(cutscene.script.subscenes[s].frames) + countTotalFramesFrom(cutscene, s + 1)

countTotalFrames(cutscene) == countTotalFramesFrom(cutscene, 1)

\* the interpreter and the renderer it drives, with the history of the
\* commands executed and of errors raised
\* constructor: the InterpreterState, and the palette and flag pushed to the renderer
NewInterpreter(cutscene, r) ==
    LET state == [ currentSubscene |-> 0, currentFrame |-> 0,
                   totalFrames |-> countTotalFrames(cutscene),
                   paletteBuffer |-> createEmptyPalette, clearScreen |-> 1,
                   isPlaying |-> FALSE ]
    IN  [ state |-> state,
          renderer |-> setClearScreen(setPalette(r, state.paletteBuffer), state.clearScreen),
          log |-> << >>, threw |-> FALSE, notified |-> << >> ]

\* onFrameChange?.(getState()): the state handed to the frame-change callback
\* and how many commands had been executed when it was called
notifyFrameChange(m) ==
    [m EXCEPT !.notified = Append(@, [currentFrame |-> m.state.currentFrame,
                                      totalFrames |-> m.state.totalFrames,
                                      at |-> Len(m.log)])]

\* executeCommand, case 'markCurPos'
ExecMarkCurPos(m, cmd) == [m EXCEPT !.renderer = clearDrawnShapes(@)]

\* refreshScreen that does not forward the mode to the renderer
ExecRefreshScreenStateOnly(m, cmd) ==
    LET clearScreen == Opt(cmd, "clearMode", 0)
    IN  [m EXCEPT !.state.clearScreen = clearScreen,
                  !.renderer = IF clearScreen # 0 THEN clearDrawnShapes(@) ELSE @]

\* executeCommand, case 'refreshScreen'
ExecRefreshScreen(m, cmd) ==
    LET clearScreen == Opt(cmd, "clearMode", 0)
        r1 == setClearScreen(m.renderer, clearScreen)
    IN  [m EXCEPT !.state.clearScreen = clearScreen,
                  !.renderer = IF clearScreen # 0 THEN clearDrawnShapes(r1) ELSE r1]

\* executeCommand, cases 'drawShape', 'drawShapeScale', 'drawShapeScaleRotate'
ExecDrawShape(m, cmd, at) ==
    IF Defined(cmd, "shapeId")
    THEN [m EXCEPT !.renderer =
             drawShape(@, cmd.shapeId, Opt(cmd, "x", 0), Opt(cmd, "y", 0), at)]
    ELSE m

ExecDrawShapeScale(m, cmd, at) ==
    IF Defined(cmd, "shapeId")
    THEN [m EXCEPT !.renderer =
             drawShapeScale(@, cmd.shapeId, Opt(cmd, "x", 0), Opt(cmd, "y", 0),
                            Opt(cmd, "zoom", 0), Opt(cmd, "originX", 0),
                            Opt(cmd, "originY", 0), at)]
    ELSE m

ExecDrawShapeScaleRotate(m, cmd, at) ==
    IF Defined(cmd, "shapeId")
    THEN [m EXCEPT !.renderer =
             drawShapeScaleRotate(@, cmd.shapeId, Opt(cmd, "x", 0), Opt(cmd, "y", 0),
                                  Opt(cmd, "zoom", 0), Opt(cmd, "originX", 0),
                                  Opt(cmd, "originY", 0), Opt(cmd, "rotationA", 0), at)]
    ELSE m

\* the destination slot taken from bufferNum without the XOR
DestSlotNoXor(cmd) == BitAnd(Opt(cmd, "bufferNum", 0), 1)

\* destSlot = ((cmd.bufferNum ?? 0) ^ 1) & 1
DestSlot(cmd) == BitAnd(BitXor(Opt(cmd, "bufferNum", 0), 1), 1)

\* the copy loop of 'setPalette' and the push to the renderer (which holds the
\* same array).  Reading .length of a palette that does not exist raises a
\* TypeError.
CopyPalette(m, palettes, paletteNum, destSlot) ==
    IF paletteNum + 1 \notin DOMAIN palettes
    THEN [m EXCEPT !.threw = TRUE]
    ELSE LET srcPalette == palettes[paletteNum + 1]
             destOffset == destSlot * 16
             written == [i \in 1..32 |->
                            IF /\ i - 1 >= destOffset
                               /\ i - 1 - destOffset < 16
                               /\ i - 1 - destOffset < Len(srcPalette)
                            THEN srcPalette[i - destOffset]
                            ELSE m.state.paletteBuffer[i]]
         IN  [m EXCEPT !.state.paletteBuffer = written,
                       !.renderer = setPalette(@, written)]

\* case 'setPalette' without the test of paletteNum against palettes.length
ExecSetPaletteNoRangeCheck(m, cutscene, cmd) ==
    IF Defined(cmd, "paletteNum")
    THEN CopyPalette(m, cutscene.palettes, cmd.paletteNum, DestSlot(cmd))
    ELSE m

\* executeCommand, case 'setPalette'
ExecSetPalette(m, cutscene, cmd) ==
    IF Defined(cmd, "paletteNum")
    THEN IF cmd.paletteNum < Len(cutscene.palettes)
         THEN CopyPalette(m, cutscene.palettes, cmd.paletteNum, DestSlot(cmd))
         ELSE m
    ELSE m

\* executeCommand: the switch on cmd.op; the default case only warns
executeCommand(m, cutscene, cmd) ==
    LET at == Len(m.log) + 1
        m1 == [m EXCEPT !.log = Append(@, cmd)]
    IN  CASE cmd.op = "markCurPos" -> ExecMarkCurPos(m1, cmd)
          [] cmd.op = "refreshScreen" -> ExecRefreshScreen(m1, cmd)
          [] cmd.op = "drawShape" -> ExecDrawShape(m1, cmd, at)
          [] cmd.op = "drawShapeScale" -> ExecDrawShapeScale(m1, cmd, at)
          [] cmd.op = "drawShapeScaleRotate" -> ExecDrawShapeScaleRotate(m1, cmd, at)
          [] cmd.op = "setPalette" -> ExecSetPalette(m1, cutscene, cmd)
          [] OTHER -> m1

\* executeFrame: the commands of a frame, in order
RECURSIVE executeCommands(_, _, _, _)
executeCommands(m, cutscene, commands, i) ==
    IF i > Len(commands) THEN m
    ELSE executeCommands(executeCommand(m, cutscene, commands[i]), cutscene, commands, i + 1)

executeFrame(m, cutscene, frame) == executeCommands(m, cutscene, frame.commands, 1)

\* getFrameAt that does not subtract the frame counts of the subscenes passed
RECURSIVE getFrameAtFromNoSubtract(_, _, _)
getFrameAtFromNoSubtract(cutscene, s, index) ==
    IF s > Len(cutscene.script.subscenes)
    THEN [subscene |-> 0, frame |-> NULL]
    ELSE LET subscene == cutscene.script.subscenes[s]
         IN  IF index < Len(subscene.frames)
             THEN [subscene |-> s - 1, frame |-> subscene.frames[index + 1]]
             ELSE getFrameAtFromNoSubtract(cutscene, s + 1, index)

\* getFrameAt: walk the subscenes, subtracting the frame counts passed
RECURSIVE getFrameAtFrom(_, _, _)
getFrameAtFrom(cutscene, s, index) ==
    IF s > Len(cutscene.script.subscenes)
    THEN [subscene |-> 0, frame |-> NULL]
    ELSE LET subscene == cutscene.script.subscenes[s]
         IN  IF index < Len(subscene.frames)
             THEN [subscene |-> s - 1, frame |-> subscene.frames[index + 1]]
             ELSE getFrameAtFrom(cutscene, s + 1, index - Len(subscene.frames))

getFrameAt(cutscene, globalIndex) == getFrameAtFrom(cutscene, 1, globalIndex)

\* renderCurrentFrame that does not tell the frame-change callback
renderCurrentFrameSilent(m, cutscene) ==
    LET frame == getFrameAt(cutscene, m.state.currentFrame).frame
    IN  IF frame # NULL THEN executeFrame(m, cutscene, frame) ELSE m

renderCurrentFrame(m, cutscene) ==
    LET frame == getFrameAt(cutscene, m.state.currentFrame).frame
    IN  notifyFrameChange(IF frame # NULL THEN executeFrame(m, cutscene, frame) ELSE m)

\* nextFrame whose bound is off by one
nextFramePastEnd(m, cutscene) ==
    IF m.state.currentFrame < m.state.totalFrames
    THEN renderCurrentFrame([m EXCEPT !.state.currentFrame = @ + 1], cutscene)
    ELSE m

nextFrame(m, cutscene) ==
    IF m.state.currentFrame < m.state.totalFrames - 1
    THEN renderCurrentFrame([m EXCEPT !.state.currentFrame = @ + 1], cutscene)
    ELSE m

\* rebuildToFrame: the loop over frames 0..targetFrame
RECURSIVE rebuildLoop(_, _, _, _)
rebuildLoop(m, cutscene, f, targetFrame) ==
    IF f > targetFrame THEN m
    ELSE LET frame == getFrameAt(cutscene, f).frame
         IN  rebuildLoop(IF frame # NULL
                         THEN executeCommands(m, cutscene, frame.commands, 1)
                         ELSE m,
                         cutscene, f + 1, targetFrame)

\* rebuildToFrame that replays on top of the palette and clear flag it finds
rebuildToFrameNoReset(m, cutscene, targetFrame) ==
    LET m0 == [m EXCEPT !.renderer = clearAllShapes(@), !.log = << >>]
    IN  notifyFrameChange(rebuildLoop(m0, cutscene, 0, targetFrame))

rebuildToFrame(m, cutscene, targetFrame) ==
    LET palette == createEmptyPalette
        m0 == [m EXCEPT !.state.paletteBuffer = palette,
                        !.state.clearScreen = 1,
                        !.renderer = setClearScreen(setPalette(clearAllShapes(@), palette), 1),
                        !.log = << >>]
    IN  notifyFrameChange(rebuildLoop(m0, cutscene, 0, targetFrame))

prevFrame(m, cutscene) ==
    IF m.state.currentFrame > 0
    THEN rebuildToFrame([m EXCEPT !.state.currentFrame = @ - 1], cutscene,
                        m.state.currentFrame - 1)
    ELSE m

\* goToFrame that clamps its argument to the valid range
goToFrameClamped(m, cutscene, frameIndex) ==
    LET clamped == IF frameIndex < 0 THEN 0
                   ELSE IF frameIndex >= m.state.totalFrames
                        THEN m.state.totalFrames - 1
                        ELSE frameIndex
    IN  IF m.state.totalFrames > 0
        THEN rebuildToFrame([m EXCEPT !.state.currentFrame = clamped], cutscene, clamped)
        ELSE m

goToFrame(m, cutscene, frameIndex) ==
    IF frameIndex >= 0 /\ frameIndex < m.state.totalFrames
    THEN rebuildToFrame([m EXCEPT !.state.currentFrame = frameIndex], cutscene, frameIndex)
    ELSE m

reset(m, cutscene) == goToFrame(m, cutscene, 0)

----------------------------------------------------------------------------
(* CutscenePlayer *)

\* the interpreter and renderer the player holds, as the operators above take them
Machine ==
    [state |-> interpreter, renderer |-> renderer, log |-> execLog, threw |-> threw,
     notified |-> << >>]

\* store the machine back, then CutscenePlayer.render(): paint the draw list
Commit(m) ==
    /\ interpreter' = m.state
    /\ renderer' = m.renderer
    /\ execLog' = m.log
    /\ threw' = m.threw
    /\ framebuffer' = render(m.renderer)

\* the frame indices tried as goToFrame arguments: every valid one, and some
\* on either side of the valid range
NoCall == [none |-> TRUE]

FrameArgs == -2 .. (countTotalFrames(input) + 2)

Init ==
    /\ input \in Cutscenes
    /\ interpreter = NULL
    /\ renderer = NewRenderer
    /\ framebuffer = << >>
    /\ isPlaying = FALSE
    /\ animationId = FALSE
    /\ execLog = << >>
    /\ threw = FALSE
    /\ lastOp = [name |-> "new", arg |-> 0]
    /\ call = NoCall
    /\ result = NoCall

\* loadCutscene(cutscene): stop and dispose if a cutscene is installed, make a
\* new renderer and interpreter, execute and render frame 0
LoadCutscene ==
    /\ LET r == loadShapes(NewRenderer, input.shapes)
           m == renderCurrentFrame(NewInterpreter(input, r), input)
       IN  Commit(m)
    /\ isPlaying' = IF interpreter # NULL THEN FALSE ELSE isPlaying
    /\ animationId' = IF interpreter # NULL THEN FALSE ELSE animationId
    /\ lastOp' = [name |-> "loadCutscene", arg |-> 0]
    /\ UNCHANGED << input, callVars >>

\* play(): no effect while playing; else set the flag and schedule animate
Play ==
    /\ ~isPlaying
    /\ isPlaying' = TRUE
    /\ animationId' = TRUE
    /\ lastOp' = [name |-> "play", arg |-> 0]
    /\ UNCHANGED << input, interpreter, renderer, framebuffer, execLog, threw, callVars >>

\* stop(): clear the flag, cancel the scheduled callback
Stop ==
    /\ isPlaying' = FALSE
    /\ animationId' = FALSE
    /\ lastOp' = [name |-> "stop", arg |-> 0]
    /\ UNCHANGED << input, interpreter, renderer, framebuffer, execLog, threw, callVars >>

\* a navigation call that leaves playback running
NavigateKeepPlaying(m, name, arg) ==
    /\ IF interpreter # NULL
       THEN Commit(m)
       ELSE /\ framebuffer' = render(renderer)
            /\ UNCHANGED << interpreter, renderer, execLog, threw >>
    /\ lastOp' = [name |-> name, arg |-> arg]
    /\ UNCHANGED << input, isPlaying, animationId, callVars >>

\* a navigation call of the player: stop(), the interpreter's method if an
\* interpreter exists, render()
Navigate(m, name, arg) ==
    /\ IF interpreter # NULL
       THEN Commit(m)
       ELSE /\ framebuffer' = render(renderer)
            /\ UNCHANGED << interpreter, renderer, execLog, threw >>
    /\ isPlaying' = FALSE
    /\ animationId' = FALSE
    /\ lastOp' = [name |-> name, arg |-> arg]
    /\ UNCHANGED << input, callVars >>

NextFrame == Navigate(nextFrame(Machine, input), "nextFrame", 0)

PrevFrame == Navigate(prevFrame(Machine, input), "prevFrame", 0)

GoToFrame(frame) == Navigate(goToFrame(Machine, input, frame), "goToFrame", frame)

Reset == Navigate(reset(Machine, input), "reset", 0)

\* animate that ends playback at the last frame instead of looping
AnimateStopAtEnd(elapsed) ==
    /\ animationId
    /\ isPlaying
    /\ IF elapsed
       THEN IF interpreter # NULL
            THEN IF interpreter.currentFrame < interpreter.totalFrames - 1
                 THEN /\ Commit(nextFrame(Machine, input))
                      /\ UNCHANGED << isPlaying, animationId >>
                 ELSE /\ isPlaying' = FALSE
                      /\ animationId' = FALSE
                      /\ UNCHANGED << interpreter, renderer, framebuffer, execLog, threw >>
            ELSE /\ framebuffer' = render(renderer)
                 /\ UNCHANGED << interpreter, renderer, execLog, threw, isPlaying, animationId >>
       ELSE UNCHANGED << interpreter, renderer, framebuffer, execLog, threw,
                         isPlaying, animationId >>
    /\ lastOp' = [name |-> "animate", arg |-> IF elapsed THEN 1 ELSE 0]
    /\ UNCHANGED << input, callVars >>

\* animate(time): the scheduled callback runs; it re-schedules itself and,
\* when the frame interval has elapsed, steps to the next frame or loops
Animate(elapsed) ==
    /\ animationId
    /\ isPlaying
    /\ IF elapsed
       THEN IF interpreter # NULL
            THEN IF interpreter.currentFrame < interpreter.totalFrames - 1
                 THEN Commit(nextFrame(Machine, input))
                 ELSE Commit(reset(Machine, input))
            ELSE /\ framebuffer' = render(renderer)
                 /\ UNCHANGED << interpreter, renderer, execLog, threw >>
       ELSE UNCHANGED << interpreter, renderer, framebuffer, execLog, threw >>
    /\ lastOp' = [name |-> "animate", arg |-> IF elapsed THEN 1 ELSE 0]
    /\ UNCHANGED << input, isPlaying, animationId, callVars >>

Next ==
    \/ LoadCutscene
    \/ Play
    \/ Stop
    \/ NextFrame
    \/ PrevFrame
    \/ \E frame \in FrameArgs : GoToFrame(frame)
    \/ Reset
    \/ \E elapsed \in BOOLEAN : Animate(elapsed)

Spec == Init /\ [][Next]_vars

----------------------------------------------------------------------------
(* SpecExec: executeCommand on an open command stream *)

\* the clear modes and the commands fed to the interpreter: every opcode, ids
\* of shapes present and absent, palette numbers in and out of range, buffer
\* numbers beyond 0 and 1, and arguments missing from a truncated stream
ClearModes == {0, 1, 2}

NoOpNames == { "waitForSync", "copyScreen", "refreshAll", "nop", "skip3",
               "drawCaptionText", "drawTextAtPos", "handleKeys" }

DrawCommands ==
    { DrawShapeCmd(id) : id \in {0, 1, 7} }
    \cup { DrawShapeScaleCmd(id, -40) : id \in {0, 7} }
    \cup { DrawShapeScaleRotateCmd(id, 0, 90) : id \in {0, 7} }

SetPaletteCommands ==
    { SetPaletteCmd(p, b) : p \in 0..2, b \in 0..3 }
    \cup { [op |-> "setPalette", paletteNum |-> p] : p \in 0..2 }
    \cup { [op |-> "setPalette"] }

ExecCommands ==
    { MarkCurPos, [op |-> "refreshScreen"], PlainCmd("unknown_15") }
    \cup { RefreshScreen(mode) : mode \in ClearModes }
    \cup { PlainCmd(name) : name \in NoOpNames }
    \cup DrawCommands
    \cup SetPaletteCommands

\* the interpreter as the constructor leaves it; the script is not consulted,
\* every step executes the next command of a stream that can hold anything
ExecInit ==
    /\ input \in { parse("EXEC", << << >> >>, pol) : pol \in PolFiles }
    /\ LET m == NewInterpreter(input, loadShapes(NewRenderer, input.shapes))
       IN  /\ interpreter = m.state
           /\ renderer = m.renderer
    /\ framebuffer = << >>
    /\ isPlaying = FALSE
    /\ animationId = FALSE
    /\ execLog = << >>
    /\ threw = FALSE
    /\ lastOp = [name |-> "new", arg |-> 0]
    /\ call = NoCall
    /\ result = NoCall

\* the commands the interpreter skips: a draw of a shape id the POL lacks, a
\* palette number past the last palette, an op the switch does not know
KnownOps == { "markCurPos", "refreshScreen", "drawShape", "drawShapeScale",
              "drawShapeScaleRotate", "setPalette" } \cup NoOpNames

DrawOps == { "drawShape", "drawShapeScale", "drawShapeScaleRotate" }

LoadedShapeIds == { input.shapes[i].id : i \in DOMAIN input.shapes }

\* 0: executed; 1: draw skipped; 2: setPalette skipped; 3: unknown op
SkipClass(cmd) ==
    IF cmd.op \in DrawOps /\ Defined(cmd, "shapeId") /\ cmd.shapeId \notin LoadedShapeIds
    THEN 1
    ELSE IF cmd.op = "setPalette" /\ Defined(cmd, "paletteNum")
                                  /\ cmd.paletteNum >= Len(input.palettes)
    THEN 2
    ELSE IF cmd.op \notin KnownOps THEN 3 ELSE 0

\* one call of executeCommand; lastOp keeps whether the command is one of
\* the skipped ones.  The draw list is kept within MaxDrawn entries.
ExecuteCommandStep(cmd) ==
    /\ (cmd \in DrawCommands /\ cmd.shapeId \in LoadedShapeIds)
          => Len(renderer.drawnShapes) < MaxDrawn
    /\ LET m == executeCommand(Machine, input, cmd)
       IN  /\ interpreter' = m.state
           /\ renderer' = m.renderer
           /\ threw' = m.threw
    /\ lastOp' = [name |-> "executeCommand", arg |-> SkipClass(cmd)]
    /\ UNCHANGED << input, framebuffer, isPlaying, animationId, execLog, callVars >>

\* the reset that opens rebuildToFrame (prevFrame, goToFrame, reset), before
\* the first frame is replayed
ResetStateStep ==
    /\ LET m == rebuildToFrame(Machine, input, -1)
       IN  /\ interpreter' = m.state
           /\ renderer' = m.renderer
           /\ threw' = m.threw
    /\ lastOp' = [name |-> "rebuildToFrame", arg |-> 0]
    /\ UNCHANGED << input, framebuffer, isPlaying, animationId, execLog, callVars >>

ExecNext ==
    \/ \E cmd \in ExecCommands : ExecuteCommandStep(cmd)
    \/ ResetStateStep

SpecExec == ExecInit /\ [][ExecNext]_vars

----------------------------------------------------------------------------
(* SpecColor: getColorForClearScreen on every colour byte *)

\* a renderer whose palette holds palette 0 of PolA in the upper half and
\* palette 1 in the lower half
ColorRenderer ==
    LET cutscene == parse("COLOR", << << >> >>, PolA)
        m0 == NewInterpreter(cutscene, loadShapes(NewRenderer, cutscene.shapes))
    IN  executeCommands(m0, cutscene, << SetPaletteCmd(0, 0), SetPaletteCmd(1, 1) >>, 1).renderer

ColorInit ==
    /\ input = parse("COLOR", << << >> >>, PolA)
    /\ interpreter = NULL
    /\ renderer = ColorRenderer
    /\ framebuffer = << >>
    /\ isPlaying = FALSE
    /\ animationId = FALSE
    /\ execLog = << >>
    /\ threw = FALSE
    /\ lastOp = [name |-> "new", arg |-> 0]
    /\ call \in [index : 0..255, clearScreen : ClearModes]
    /\ result = NoCall

\* renderShape's colour lookup for one primitive
LookupColor ==
    /\ result = NoCall
    /\ result' = [ paletteIndex |-> PaletteIndex(call.index, call.clearScreen),
                   color |-> getColorForClearScreen(renderer, call.index, call.clearScreen) ]
    /\ UNCHANGED << input, interpreter, renderer, framebuffer, isPlaying, animationId,
                    execLog, threw, lastOp, call >>

ColorNext == LookupColor

SpecColor == ColorInit /\ [][ColorNext]_vars

----------------------------------------------------------------------------
(* parseCommands / parseCMD on the bytes of a CMD file *)

UNDEFINED == [isUndefined |-> TRUE]
NaN == [isNaN |-> TRUE]

\* bit n of v is set
Bit(v, n) == (v \div Pow2(n)) % 2 = 1

\* BinaryReader.eof
eof(data, pos) == pos >= Len(data)

\* DataView.getUint16 / getInt16 throw a RangeError outside the buffer
CanRead16(data, pos) == pos >= 0 /\ pos + 2 <= Len(data)
BEUint16At(data, pos) == data[pos + 1] * 256 + data[pos + 2]
\* readBEInt16 that reads the word unsigned
BEInt16AtUnsigned(data, pos) == BEUint16At(data, pos)

BEInt16At(data, pos) ==
    LET v == BEUint16At(data, pos) IN IF v >= 32768 THEN v - 65536 ELSE v

\* Uint8Array indexing yields undefined outside the buffer
Uint8At(data, pos) == IF pos >= 0 /\ pos < Len(data) THEN data[pos + 1] ELSE UNDEFINED
Int8At(data, pos) ==
    IF pos >= 0 /\ pos < Len(data)
    THEN (IF data[pos + 1] < 128 THEN data[pos + 1] ELSE data[pos + 1] - 256)
    ELSE NaN

Thrown == [ok |-> FALSE]

\* the argument reads of one command, in order: << field, kind >> with kind
\* "u8", "u16" or "s16"; a 16-bit read outside the buffer throws, an 8-bit one
\* leaves the field undefined
RECURSIVE ReadFields(_, _, _, _, _)
ReadFields(data, pos, cmd, fields, i) ==
    IF i > Len(fields) THEN [ok |-> TRUE, cmd |-> cmd, pos |-> pos]
    ELSE LET f == fields[i][1]
             kind == fields[i][2]
         IN  IF kind = "u8"
             THEN ReadFields(data, pos + 1,
                             IF pos < Len(data) THEN cmd @@ (f :> data[pos + 1]) ELSE cmd,
                             fields, i + 1)
             ELSE IF ~CanRead16(data, pos) THEN Thrown
             ELSE ReadFields(data, pos + 2,
                             cmd @@ (f :> IF kind = "s16" THEN BEInt16At(data, pos)
                                                         ELSE BEUint16At(data, pos)),
                             fields, i + 1)

\* the reads that follow the shape word of the three draw opcodes
ShapeFields(opcode, shapeWord) ==
    (IF Bit(shapeWord, 15) THEN << <<"x", "s16">>, <<"y", "s16">> >> ELSE << >>)
    \o (IF opcode = 10 THEN << <<"zoom", "s16">> >>
        ELSE IF opcode = 11 /\ Bit(shapeWord, 14) THEN << <<"zoom", "s16">> >>
        ELSE << >>)
    \o (IF opcode \in {10, 11} THEN << <<"originX", "u8">>, <<"originY", "u8">> >> ELSE << >>)
    \o (IF opcode = 11 THEN << <<"rotationA", "u16">> >> ELSE << >>)
    \o (IF opcode = 11 /\ Bit(shapeWord, 13) THEN << <<"rotationB", "u16">> >> ELSE << >>)
    \o (IF opcode = 11 /\ Bit(shapeWord, 12) THEN << <<"rotationC", "u16">> >> ELSE << >>)

\* the fields the draw opcodes set without reading
ShapeDefaults(opcode, shapeWord) ==
    (IF Bit(shapeWord, 15) THEN << >> ELSE [x |-> 0, y |-> 0])
    @@ (IF opcode = 11 /\ ~Bit(shapeWord, 14) THEN [zoom |-> 0] ELSE << >>)
    @@ (IF opcode = 11 /\ ~Bit(shapeWord, 13) THEN [rotationB |-> 180] ELSE << >>)
    @@ (IF opcode = 11 /\ ~Bit(shapeWord, 12) THEN [rotationC |-> 90] ELSE << >>)

\* HANDLE_KEYS: key handlers up to the 0xFF mask; running off the buffer ends
\* in the RangeError of the target read
RECURSIVE ReadHandlers(_, _, _)
ReadHandlers(data, pos, handlers) ==
    IF pos < Len(data) /\ data[pos + 1] = 255
    THEN [ok |-> TRUE, handlers |-> handlers, pos |-> pos + 1]
    ELSE IF ~CanRead16(data, pos + 1) THEN Thrown
    ELSE ReadHandlers(data, pos + 3,
                      Append(handlers, [keyMask |-> Uint8At(data, pos),
                                        target |-> BEInt16At(data, pos + 1)]))

\* the name table with the entry of opcode 7 taken from opcode 9
OPCODE_NAMES_NopAsRefreshAll ==
    << "markCurPos", "refreshScreen", "waitForSync", "drawShape", "setPalette",
       "markCurPos", "drawCaptionText", "refreshAll", "skip3", "refreshAll",
       "drawShapeScale", "drawShapeScaleRotate", "copyScreen", "drawTextAtPos",
       "handleKeys" >>

OPCODE_NAMES ==
    << "markCurPos", "refreshScreen", "waitForSync", "drawShape", "setPalette",
       "markCurPos", "drawCaptionText", "nop", "skip3", "refreshAll",
       "drawShapeScale", "drawShapeScaleRotate", "copyScreen", "drawTextAtPos",
       "handleKeys" >>

\* parseCommands, the switch on the opcode: the command and the position
\* after its arguments
ParseArguments(data, pos, opcode) ==
    LET cmd == [op |-> OPCODE_NAMES[opcode + 1]]
    IN  CASE opcode = 1 -> ReadFields(data, pos, cmd, << <<"clearMode", "u8">> >>, 1)
          [] opcode = 2 -> ReadFields(data, pos, cmd, << <<"frames", "u8">> >>, 1)
          [] opcode \in {3, 10, 11} ->
                IF ~CanRead16(data, pos) THEN Thrown
                ELSE LET shapeWord == BEUint16At(data, pos)
                     IN  ReadFields(data, pos + 2,
                                    cmd @@ [shapeId |-> shapeWord % 2048]
                                        @@ ShapeDefaults(opcode, shapeWord),
                                    ShapeFields(opcode, shapeWord), 1)
          [] opcode = 4 ->
                ReadFields(data, pos, cmd,
                           << <<"paletteNum", "u8">>, <<"bufferNum", "u8">> >>, 1)
          [] opcode = 6 -> ReadFields(data, pos, cmd, << <<"stringId", "u16">> >>, 1)
          [] opcode = 8 ->
                [ok |-> TRUE, pos |-> pos + 3,
                 cmd |-> cmd @@ [skipped |-> [k \in 1..3 |-> Uint8At(data, pos + k - 1)]]]
          [] opcode = 13 ->
                IF ~CanRead16(data, pos) THEN Thrown
                ELSE LET stringId == BEUint16At(data, pos)
                     IN  IF stringId = 65535
                         THEN [ok |-> TRUE, cmd |-> cmd, pos |-> pos + 2]
                         ELSE [ok |-> TRUE, pos |-> pos + 4,
                               cmd |-> cmd @@ [stringId |-> stringId % 4096,
                                               color |-> (stringId \div 4096) % 16,
                                               x |-> IF pos + 2 < Len(data)
                                                     THEN Int8At(data, pos + 2) * 8 ELSE NaN,
                                               y |-> IF pos + 3 < Len(data)
                                                     THEN Int8At(data, pos + 3) * 8 ELSE NaN]]
          [] opcode = 14 ->
                LET h == ReadHandlers(data, pos, << >>)
                IN  IF h.ok THEN [ok |-> TRUE, pos |-> h.pos,
                                  cmd |-> cmd @@ [handlers |-> h.handlers]]
                    ELSE Thrown
          [] OTHER -> [ok |-> TRUE, cmd |-> cmd, pos |-> pos]

\* parseCommands: commands from pos up to the end marker, the end of the
\* buffer or an opcode above 14; `warned` records the console warning
RECURSIVE parseCommandsFrom(_, _, _)
parseCommandsFrom(data, pos, commands) ==
    IF eof(data, pos) THEN [ok |-> TRUE, commands |-> commands, warned |-> FALSE]
    ELSE LET byte == data[pos + 1]
             opcode == ShiftRight(byte, 2)
         IN  IF Bit(byte, 7)
             THEN [ok |-> TRUE, commands |-> commands, warned |-> FALSE]
             ELSE IF opcode > 14
             THEN [ok |-> TRUE, commands |-> commands, warned |-> TRUE]
             ELSE LET a == ParseArguments(data, pos + 1, opcode)
                  IN  IF a.ok THEN parseCommandsFrom(data, a.pos, Append(commands, a.cmd))
                      ELSE Thrown

parseCommands(data, pos) == parseCommandsFrom(data, pos, << >>)

\* parseCMD on a buffer: the header, then the commands of every subscene
\* grouped into frames; `streams` and `warned` keep the command list and the
\* warning of each subscene
parseCMDBuffer(data) ==
    IF ~CanRead16(data, 0) THEN Thrown
    ELSE LET subCount == BEUint16At(data, 0)
             baseOffset == (subCount + 1) * 2
         IN  IF subCount > 0 /\ 2 + 2 * subCount > Len(data) THEN Thrown
             ELSE LET subOffsets == IF subCount = 0 THEN << 0 >>
                                    ELSE [i \in 1..subCount |-> BEUint16At(data, 2 * i)]
                      parsed == [s \in DOMAIN subOffsets |->
                                    parseCommands(data, baseOffset + subOffsets[s])]
                  IN  IF \E s \in DOMAIN parsed : ~parsed[s].ok THEN Thrown
                      ELSE LET streams == [s \in DOMAIN parsed |-> parsed[s].commands]
                           IN  [ ok |-> TRUE,
                                 script |-> parseCMD(streams),
                                 baseOffset |-> baseOffset,
                                 subOffsets |-> subOffsets,
                                 streams |-> streams,
                                 warned |-> [s \in DOMAIN parsed |-> parsed[s].warned] ]

----------------------------------------------------------------------------
(* SpecCmd: parseCMD on CMD files *)

\* most byte groups after the header of a generated CMD file
MaxCmdTokens == 3

\* byte groups: markCurPos (opcodes 0 and 5), refreshScreen, nop, drawShape,
\* setPalette, handleKeys with no handler, a byte of opcode 15, the end
\* marker, a drawShape opcode cut before its shape word, drawShapeScale of
\* shape 1 with zoom bytes FF D8, and drawShapeScaleRotate of shape 1 with
\* every optional argument present and zoom bytes FF D8
CmdTokens ==
    { << 0 >>, << 20 >>, << 4, 1 >>, << 28 >>, << 12, 0, 1 >>, << 16, 0, 1 >>,
      << 56, 255 >>, << 60 >>, << 128 >>, << 12 >>,
      << 40, 0, 1, 255, 216, 3, 4 >>,
      << 44, 240, 1, 0, 5, 255, 250, 255, 216, 3, 4, 0, 90, 0, 180, 1, 14 >> }

\* headers: no subscene table (one implicit subscene), and a table of two
\* subscenes whose streams start one byte apart
CmdHeaders == { << 0, 0 >>, << 0, 2, 0, 0, 0, 1 >> }

RECURSIVE TokenStrings(_)
TokenStrings(n) ==
    IF n = 0 THEN { << >> }
    ELSE LET shorter == TokenStrings(n - 1)
         IN  shorter \cup { l \o t : l \in shorter, t \in CmdTokens }

\* one command of every opcode that takes arguments, with every optional
\* argument present: refreshScreen, waitForSync, drawShape, setPalette,
\* drawCaptionText, skip3, drawShapeScale, drawShapeScaleRotate,
\* drawTextAtPos, and handleKeys with one handler
FullCommands ==
    { << 4, 2 >>, << 8, 5 >>, << 12, 128, 1, 0, 5, 255, 250 >>, << 16, 0, 1 >>,
      << 24, 0, 7 >>, << 32, 1, 2, 3 >>,
      << 40, 128, 1, 0, 5, 255, 250, 255, 216, 3, 4 >>,
      << 44, 240, 1, 0, 5, 255, 250, 255, 216, 3, 4, 0, 90, 0, 180, 1, 14 >>,
      << 52, 16, 7, 2, 3 >>, << 56, 1, 0, 5, 255 >> }

\* every command above cut after its opcode byte or inside its arguments
TruncatedCommands ==
    UNION { { SubSeq(c, 1, k) : k \in 1 .. Len(c) - 1 } : c \in FullCommands }

\* files of one implicit subscene whose stream ends inside a command, at
\* the start of the stream or after a nop
TruncatedCmdFiles ==
    { << 0, 0 >> \o before \o cut : before \in { << >>, << 28 >> }, cut \in TruncatedCommands }

CmdFiles ==
    { << >>, << 0 >>, << 0, 1 >> }
    \cup { h \o body : h \in CmdHeaders, body \in TokenStrings(MaxCmdTokens) }
    \cup TruncatedCmdFiles

CmdInit ==
    /\ input = parse("CMD", << << >> >>, PolA)
    /\ interpreter = NULL
    /\ renderer = NewRenderer
    /\ framebuffer = << >>
    /\ isPlaying = FALSE
    /\ animationId = FALSE
    /\ execLog = << >>
    /\ threw = FALSE
    /\ lastOp = [name |-> "new", arg |-> 0]
    /\ call \in { [file |-> f] : f \in CmdFiles }
    /\ result = NoCall

\* one call of parseCMD
ParseCmdFile ==
    /\ result = NoCall
    /\ result' = parseCMDBuffer(call.file)
    /\ UNCHANGED << input, interpreter, renderer, framebuffer, isPlaying, animationId,
                    execLog, threw, lastOp, call >>

CmdNext == ParseCmdFile

SpecCmd == CmdInit /\ [][CmdNext]_vars

----------------------------------------------------------------------------
(* parsePOL / parseShape / parseVertices on the bytes of a POL file *)

\* the running sums of the n delta pairs read from byte `pos` on, a byte
\* outside the buffer counting as 0; the pairs are summed by halves to keep
\* the evaluation shallow
RECURSIVE DeltaSums(_, _, _)
DeltaSums(data, pos, n) ==
    IF n = 0 THEN << >>
    ELSE IF n = 1
    THEN << << IF pos >= 0 /\ pos < Len(data) THEN Int8At(data, pos) ELSE 0,
               IF pos + 1 >= 0 /\ pos + 1 < Len(data) THEN Int8At(data, pos + 1) ELSE 0 >> >>
    ELSE LET half == n \div 2
             first == DeltaSums(data, pos, half)
             second == DeltaSums(data, pos + 2 * half, n - half)
             last == first[half]
         IN  first \o [k \in 1 .. n - half |->
                          << last[1] + second[k][1], last[2] + second[k][2] >>]

\* the delta pairs of a polygon from byte `pos` on, added to (ix, iy); a
\* delta read outside the buffer is NaN and stays NaN in every later vertex.
\* The reads go up the buffer, so a read of pass k or before was outside
\* exactly when pos is negative or the read of pass k is past the end
ReadDeltas(data, pos, n, ix, iy, nanX, nanY, vertices) ==
    LET sums == DeltaSums(data, pos, n)
    IN  vertices \o [k \in 1 .. n |->
                        << IF nanX \/ pos < 0 \/ pos + 2 * (k - 1) >= Len(data)
                           THEN NaN ELSE ix + sums[k][1],
                           IF nanY \/ pos + 1 < 0 \/ pos + 2 * (k - 1) + 1 >= Len(data)
                           THEN NaN ELSE iy + sums[k][2] >>]

\* parseVertices with every vertex record read as a polygon
parseVerticesAllPolygons(data, vertexIndex, verticesOffsetTable, verticesDataTable, color, hasAlpha, offsetX, offsetY) ==
    LET tableOffset == verticesOffsetTable + vertexIndex * 2
    IN  IF ~CanRead16(data, tableOffset) THEN Thrown
        ELSE LET vertexOffset == verticesDataTable + BEUint16At(data, tableOffset)
                 pos == vertexOffset + 1
             IN  IF ~(CanRead16(data, pos) /\ CanRead16(data, pos + 2)) THEN Thrown
                 ELSE [ok |-> TRUE,
                       primitive |->
                          [type |-> "polygon", color |-> color, hasAlpha |-> hasAlpha,
                           vertices |->
                              ReadDeltas(data, pos + 4, data[vertexOffset + 1],
                                         BEInt16At(data, pos), BEInt16At(data, pos + 2),
                                         FALSE, FALSE,
                                         << << BEInt16At(data, pos),
                                               BEInt16At(data, pos + 2) >> >>)]]

\* parseVertices: the primitive of vertex record `vertexIndex`
parseVertices(data, vertexIndex, verticesOffsetTable, verticesDataTable, color, hasAlpha, offsetX, offsetY) ==
    LET tableOffset == verticesOffsetTable + vertexIndex * 2
    IN  IF ~CanRead16(data, tableOffset) THEN Thrown
        ELSE
        LET vertexOffset == verticesDataTable + BEUint16At(data, tableOffset)
            pos == vertexOffset + 1
            baseProps == [color |-> color, hasAlpha |-> hasAlpha]
                         @@ (IF offsetX # 0 \/ offsetY # 0
                             THEN [offsetX |-> offsetX, offsetY |-> offsetY]
                             ELSE << >>)
        IN  \* the first coordinate pair is read by every branch; it throws
            \* whenever the count byte itself is outside the buffer
            IF ~(CanRead16(data, pos) /\ CanRead16(data, pos + 2)) THEN Thrown
            ELSE
            LET numVertices == data[vertexOffset + 1]
            IN  IF numVertices = 0
                THEN [ok |-> TRUE,
                      primitive |-> [type |-> "point"] @@ baseProps
                                    @@ [x |-> BEInt16At(data, pos),
                                        y |-> BEInt16At(data, pos + 2)]]
                ELSE IF Bit(numVertices, 7)
                THEN IF ~(CanRead16(data, pos + 4) /\ CanRead16(data, pos + 6)) THEN Thrown
                     ELSE [ok |-> TRUE,
                           primitive |-> [type |-> "ellipse"] @@ baseProps
                                         @@ [cx |-> BEInt16At(data, pos),
                                             cy |-> BEInt16At(data, pos + 2),
                                             rx |-> BEInt16At(data, pos + 4),
                                             ry |-> BEInt16At(data, pos + 6)]]
                ELSE [ok |-> TRUE,
                      primitive |-> [type |-> "polygon"] @@ baseProps
                                    @@ [vertices |->
                                           ReadDeltas(data, pos + 4, numVertices,
                                               BEInt16At(data, pos), BEInt16At(data, pos + 2),
                                               FALSE, FALSE,
                                               << << BEInt16At(data, pos),
                                                     BEInt16At(data, pos + 2) >> >>)]]

\* parseShape, the loop over the primitives from byte `pos` on
RECURSIVE ReadPrimitives(_, _, _, _, _, _)
ReadPrimitives(data, pos, remaining, verticesOffsetTable, verticesDataTable, primitives) ==
    IF remaining = 0 THEN [ok |-> TRUE, primitives |-> primitives]
    ELSE IF ~CanRead16(data, pos) THEN Thrown
    ELSE
    LET vertexOffsetWord == BEUint16At(data, pos)
        hasOffset == Bit(vertexOffsetWord, 15)
        hasAlpha == Bit(vertexOffsetWord, 14)
        vertexIndex == vertexOffsetWord % 16384
    IN  IF hasOffset /\ ~(CanRead16(data, pos + 2) /\ CanRead16(data, pos + 4)) THEN Thrown
        ELSE
        LET offsetX == IF hasOffset THEN BEInt16At(data, pos + 2) ELSE 0
            offsetY == IF hasOffset THEN BEInt16At(data, pos + 4) ELSE 0
            colorPos == IF hasOffset THEN pos + 6 ELSE pos + 2
            v == parseVertices(data, vertexIndex, verticesOffsetTable, verticesDataTable,
                               Uint8At(data, colorPos), hasAlpha, offsetX, offsetY)
        IN  IF ~v.ok THEN Thrown
            ELSE ReadPrimitives(data, colorPos + 1, remaining - 1, verticesOffsetTable,
                                verticesDataTable, Append(primitives, v.primitive))

\* parseShape: shape `shapeIndex` with all its primitives
parseShape(data, shapeIndex, shapeOffsetTable, shapeDataTable, verticesOffsetTable, verticesDataTable) ==
    LET tableOffset == shapeOffsetTable + shapeIndex * 2
    IN  IF ~CanRead16(data, tableOffset) THEN Thrown
        ELSE LET shapeOffset == shapeDataTable + BEUint16At(data, tableOffset)
             IN  IF ~CanRead16(data, shapeOffset) THEN Thrown
                 ELSE LET p == ReadPrimitives(data, shapeOffset + 2,
                                              BEUint16At(data, shapeOffset),
                                              verticesOffsetTable, verticesDataTable, << >>)
                      IN  IF p.ok THEN [ok |-> TRUE,
                                        shape |-> [id |-> shapeIndex,
                                                   primitives |-> p.primitives]]
                          ELSE Thrown

\* parsePOL, the shape loop: shapes are parsed until one fails; the failure
\* is caught, logged (`warned`) and ends the loop
RECURSIVE ReadShapes(_, _, _, _, _, _, _, _)
ReadShapes(data, shapeIndex, shapeCount, shapeOffsetTable, shapeDataTable, verticesOffsetTable, verticesDataTable, shapes) ==
    IF shapeIndex >= shapeCount THEN [shapes |-> shapes, warned |-> FALSE]
    ELSE LET sh == parseShape(data, shapeIndex, shapeOffsetTable, shapeDataTable,
                              verticesOffsetTable, verticesDataTable)
         IN  IF ~sh.ok THEN [shapes |-> shapes, warned |-> TRUE]
             ELSE ReadShapes(data, shapeIndex + 1, shapeCount, shapeOffsetTable,
                             shapeDataTable, verticesOffsetTable, verticesDataTable,
                             Append(shapes, sh.shape))

\* parsePOL on a buffer; shapeCount iterations of the shape loop are
\* ceil((paletteOffset - shapeOffsetTable) / 2), none when that is negative
parsePOLBuffer(data) ==
    IF Len(data) < 20 THEN Thrown
    ELSE
    LET shapeOffsetTable == BEUint16At(data, 2)
        paletteOffset == BEUint16At(data, 6)
        verticesOffsetTable == BEUint16At(data, 10)
        shapeDataTable == BEUint16At(data, 14)
        verticesDataTable == BEUint16At(data, 18)
        shapeCount == IF paletteOffset <= shapeOffsetTable THEN 0
                      ELSE (paletteOffset - shapeOffsetTable + 1) \div 2
        floored == (verticesOffsetTable - paletteOffset) \div 32
        paletteCount == IF floored > 1 THEN floored ELSE 1
    IN  IF \E i \in 0 .. paletteCount - 1, c \in 0..15 :
              ~CanRead16(data, paletteOffset + i * 32 + c * 2)
        THEN Thrown
        ELSE LET sh == ReadShapes(data, 0, shapeCount, shapeOffsetTable, shapeDataTable,
                                  verticesOffsetTable, verticesDataTable, << >>)
             IN  [ ok |-> TRUE,
                   shapes |-> sh.shapes,
                   palettes |-> [i \in 1..paletteCount |->
                                   [c \in 1..16 |->
                                      DecodeColor(BEUint16At(data,
                                          paletteOffset + (i - 1) * 32 + (c - 1) * 2))]],
                   shapeCount |-> shapeCount,
                   warned |-> sh.warned ]

\* CutsceneLoader.parse on the two buffers
parseBuffers(cmdBuffer, polBuffer, name) ==
    LET script == parseCMDBuffer(cmdBuffer)
        pol == parsePOLBuffer(polBuffer)
    IN  IF ~script.ok \/ ~pol.ok THEN Thrown
        ELSE [ ok |-> TRUE,
               cutscene |-> [ name |-> name, shapes |-> pol.shapes,
                              palettes |-> pol.palettes, script |-> script.script ],
               shapeCount |-> pol.shapeCount,
               warned |-> pol.warned ]

----------------------------------------------------------------------------
(* SpecPol: CutsceneLoader.parse on POL files *)

\* most shapes in a generated POL file
MaxPolShapes == 2

\* big-endian 16-bit word and 8-bit byte, two's complement
Word(v) == << (v % 65536) \div 256, v % 256 >>
Byte(v) == v % 256

\* the delta pairs as bytes: dx1, dy1, dx2, dy2, ...
DeltaBytes(deltas) ==
    [j \in 1 .. 2 * Len(deltas) |-> Byte(deltas[(j + 1) \div 2][2 - (j % 2)])]

\* a vertex record as laid out in the file: count byte, first point, then the
\* radii of an ellipse or the delta pairs of a polygon
EncodeVertexRecord(rec) ==
    << rec.n >> \o Word(rec.x) \o Word(rec.y)
    \o (IF rec.n >= 128 THEN Word(rec.rx) \o Word(rec.ry)
        ELSE IF rec.n = 0 THEN << >>
        ELSE DeltaBytes(rec.deltas))

DeltasA == << << 1, -1 >>, << -128, 127 >>, << 0, 5 >> >>
DeltasB == << << -1, -1 >>, << 127, -128 >>, << 3, 0 >> >>

\* the vertex records of the generated files: points, ellipses, and polygons
\* of count byte 1..3 and 127
VertexRecords ==
    { [n |-> 0, x |-> -2, y |-> 300], [n |-> 0, x |-> -32768, y |-> 32767] }
    \cup { [n |-> n, x |-> -2, y |-> 300, rx |-> 10, ry |-> -3] : n \in {128, 255} }
    \cup { [n |-> n, x |-> -2, y |-> 300, deltas |-> SubSeq(d, 1, n)] :
              n \in 1..3, d \in {DeltasA, DeltasB} }
    \cup { [n |-> 2, x |-> 32767, y |-> -32768, deltas |-> SubSeq(DeltasA, 1, 2)] }
    \cup { [n |-> 127, x |-> 0, y |-> 0,
            deltas |-> [k \in 1..127 |-> IF k % 2 = 0 THEN << 2, -3 >> ELSE << -1, 1 >>]] }

RECURSIVE RecordLists(_)
RecordLists(n) ==
    IF n = 0 THEN { << >> }
    ELSE LET shorter == RecordLists(n - 1)
         IN  shorter \cup { Append(l, r) : l \in { x \in shorter : Len(x) = n - 1 },
                                            r \in VertexRecords }

RECURSIVE Concat(_, _)
Concat(seqs, i) == IF i > Len(seqs) THEN << >> ELSE seqs[i] \o Concat(seqs, i + 1)

\* the colour byte of the primitive of shape i
ShapeColor(i) == (16 * i + 3) % 256

\* a POL file of Len(recs) shapes, shape i holding one primitive on vertex
\* record i; `flags` are the high bits of the vertex offset word (0x8000: an
\* offset pair follows, 0x4000: alpha) and `cut` bytes are missing at the end
BuildPol(recs, flags, cut) ==
    LET N == Len(recs)
        shapeOffsetTable == 20
        paletteOffset == 20 + 2 * N
        verticesOffsetTable == paletteOffset + 32
        shapeDataTable == verticesOffsetTable + 2 * N
        shapeSize == IF flags >= 32768 THEN 9 ELSE 5
        verticesDataTable == shapeDataTable + N * shapeSize
        encoded == [i \in 1..N |-> EncodeVertexRecord(recs[i])]
        header == << 0, 0 >> \o Word(shapeOffsetTable) \o << 0, 0 >> \o Word(paletteOffset)
                  \o << 0, 0 >> \o Word(verticesOffsetTable) \o << 0, 0 >>
                  \o Word(shapeDataTable) \o << 0, 0 >> \o Word(verticesDataTable)
        shapeTable == Concat([i \in 1..N |-> Word((i - 1) * shapeSize)], 1)
        palette == Concat([c \in 1..16 |-> Word(PalWord(0, c - 1))], 1)
        vertexTable == Concat([i \in 1..N |-> Word(Len(Concat(SubSeq(encoded, 1, i - 1), 1)))], 1)
        shapeData == Concat([i \in 1..N |->
                        Word(1) \o Word(flags + i - 1)
                        \o (IF flags >= 32768 THEN Word(3) \o Word(-4) ELSE << >>)
                        \o << ShapeColor(i) >>], 1)
        whole == header \o shapeTable \o palette \o vertexTable \o shapeData
                 \o Concat(encoded, 1)
    IN  SubSeq(whole, 1, Len(whole) - cut)

PolCuts == {0, 1, 5}
PolFlags == {0, 49152}

\* the CMD buffer every POL file is paired with: one frame, one markCurPos
PolCmdBuffer == << 0, 0, 0, 128 >>

PolInit ==
    /\ input = parse("POL", << << >> >>, PolA)
    /\ interpreter = NULL
    /\ renderer = NewRenderer
    /\ framebuffer = << >>
    /\ isPlaying = FALSE
    /\ animationId = FALSE
    /\ execLog = << >>
    /\ threw = FALSE
    /\ lastOp = [name |-> "new", arg |-> 0]
    /\ call \in { [file |-> BuildPol(recs, flags, cut), records |-> recs,
                   flags |-> flags, cut |-> cut] :
                    recs \in RecordLists(MaxPolShapes), flags \in PolFlags, cut \in PolCuts }
    /\ result = NoCall

\* one call of CutsceneLoader.parse
ParsePolFile ==
    /\ result = NoCall
    /\ result' = parseBuffers(PolCmdBuffer, call.file, "POL")
    /\ UNCHANGED << input, interpreter, renderer, framebuffer, isPlaying, animationId,
                    execLog, threw, lastOp, call >>

PolNext == ParsePolFile

SpecPol == PolInit /\ [][PolNext]_vars

----------------------------------------------------------------------------
(* SpecLoad: CutsceneLoader.load, two fetches completing in any order *)

NoBuffer == [isNull |-> TRUE]
Buffer(data) == [isNull |-> FALSE, data |-> data]

Files == {"cmd", "pol"}

\* how a fetch ends: the buffer arrives ("ok"), the server answers with a
\* status that is not ok ("http"), the request fails ("network"), or reading
\* the body fails ("body")
FetchOutcomes == {"ok", "http", "network", "body"}

\* the CMD and POL buffers served: well-formed ones, and ones parseCMD and
\* parsePOL throw on
LoadCmdBuffers == { << 0, 0, 0, 128 >>, << 0, 0, 0, 12, 0, 1, 128 >>, << >>, << 0, 0, 12 >> }
LoadPolBuffers ==
    { BuildPol(<< [n |-> 0, x |-> -2, y |-> 300] >>, 0, 0),
      BuildPol(<< [n |-> 0, x |-> -2, y |-> 300], [n |-> 128, x |-> 1, y |-> 2,
                                                    rx |-> 3, ry |-> 4] >>, 0, 0),
      << 0 >> }

\* the local variables of one load() call and what its callbacks have seen
NewLoad ==
    [ cmdBuffer |-> NoBuffer, polBuffer |-> NoBuffer, loadedCount |-> 0,
      pc |-> [f \in Files |-> "fetch"],
      onLoadCalls |-> 0, onErrorCalls |-> 0, consoleErrors |-> 0,
      progress |-> << >>, arrived |-> << >>, loaded |-> NULL ]

LoadInit ==
    /\ input = parse("LOAD", << << >> >>, PolA)
    /\ interpreter = NULL
    /\ renderer = NewRenderer
    /\ framebuffer = << >>
    /\ isPlaying = FALSE
    /\ animationId = FALSE
    /\ execLog = << >>
    /\ threw = FALSE
    /\ lastOp = [name |-> "new", arg |-> 0]
    /\ call \in [ outcome : [Files -> FetchOutcomes],
                  cmd : LoadCmdBuffers, pol : LoadPolBuffers,
                  hasOnError : BOOLEAN, hasOnProgress : BOOLEAN ]
    /\ result = NewLoad

\* the catch handlers and the catch block of checkComplete: onError when one
\* was passed, console.error otherwise
reportErrorSilently(l, env) == l

reportError(l, env) ==
    IF env.hasOnError THEN [l EXCEPT !.onErrorCalls = @ + 1]
    ELSE [l EXCEPT !.consoleErrors = @ + 1]

\* onFileLoaded
onFileLoaded(l, env) ==
    LET counted == [l EXCEPT !.loadedCount = @ + 1]
    IN  IF env.hasOnProgress
        THEN [counted EXCEPT !.progress =
                 Append(@, [loaded |-> counted.loadedCount, total |-> 2])]
        ELSE counted

\* checkComplete: parse and hand over once both buffers are there
checkComplete(l, env) ==
    IF ~l.cmdBuffer.isNull /\ ~l.polBuffer.isNull
    THEN LET p == parseBuffers(l.cmdBuffer.data, l.polBuffer.data, "LOAD")
         IN  IF p.ok
             THEN [l EXCEPT !.onLoadCalls = @ + 1, !.loaded = p.cutscene]
             ELSE reportError(l, env)
    ELSE l

\* the fetch promise settles and the first then() runs: a response that is
\* not ok throws, a failed request rejects
FetchSettles(f) ==
    /\ result.pc[f] = "fetch"
    /\ result' = [result EXCEPT !.pc[f] =
                     IF call.outcome[f] \in {"http", "network"} THEN "rejected" ELSE "body"]
    /\ UNCHANGED << input, interpreter, renderer, framebuffer, isPlaying, animationId,
                    execLog, threw, lastOp, call >>

\* response.arrayBuffer() settles and the second then() runs
BufferArrives(f) ==
    /\ result.pc[f] = "body"
    /\ IF call.outcome[f] = "body"
       THEN result' = [result EXCEPT !.pc[f] = "rejected"]
       ELSE LET stored == IF f = "cmd"
                          THEN [result EXCEPT !.cmdBuffer = Buffer(call.cmd)]
                          ELSE [result EXCEPT !.polBuffer = Buffer(call.pol)]
                noted == [stored EXCEPT !.arrived = Append(@, f), !.pc[f] = "done"]
            IN  result' = checkComplete(onFileLoaded(noted, call), call)
    /\ UNCHANGED << input, interpreter, renderer, framebuffer, isPlaying, animationId,
                    execLog, threw, lastOp, call >>

\* the catch() of a chain runs
CatchRuns(f) ==
    /\ result.pc[f] = "rejected"
    /\ result' = reportError([result EXCEPT !.pc[f] = "done"], call)
    /\ UNCHANGED << input, interpreter, renderer, framebuffer, isPlaying, animationId,
                    execLog, threw, lastOp, call >>

LoadNext ==
    \/ \E f \in Files : FetchSettles(f)
    \/ \E f \in Files : BufferArrives(f)
    \/ \E f \in Files : CatchRuns(f)

SpecLoad == LoadInit /\ [][LoadNext]_vars

----------------------------------------------------------------------------
(* CutscenePlayer with audio enabled: MidiPlayer, cutscene switching *)

MaxTasks == 2

\* options.enableAudio ?? true
audioEnabled == TRUE

\* cutscenePrfMap, the entries of the cutscenes below
cutscenePrfMap == [intro1 |-> "INTROL3", debut |-> "REVEIL3"]

toLowerCase(name) ==
    CASE name = "INTRO1" -> "intro1"
      [] name = "DEBUT" -> "debut"
      [] name = "LOGOS" -> "logos"
      [] OTHER -> name

\* getPrfName: the mapped PRF name, "" for null
getPrfName(cutsceneName) ==
    LET name == toLowerCase(cutsceneName)
    IN  IF name \in DOMAIN cutscenePrfMap THEN cutscenePrfMap[name] ELSE ""

\* two cutscenes with music and one without
AudioCutscenes ==
    { parse("INTRO1", << << SetPaletteCmd(0, 1), DrawShapeCmd(0), MarkCurPos,
                           SetPaletteCmd(1, 1), DrawShapeCmd(1) >> >>, PolA),
      parse("DEBUT", << << MarkCurPos, RefreshScreen(0), SetPaletteCmd(1, 0),
                          DrawShapeCmd(0), MarkCurPos, DrawShapeCmd(1),
                          MarkCurPos, RefreshScreen(1) >> >>, PolB),
      parse("LOGOS", << << DrawShapeCmd(1) >> >>, PolA) }

\* what the player and its MidiPlayer did during one call, in order
Ev(name) == [ev |-> name, s |-> "", a |-> 0, b |-> 0, c |-> 0]
Emit(w, e) == [w EXCEPT !.events = Append(@, e)]

\* the async function suspends at an await: its continuation joins the
\* promises in flight, a bag since they settle in any order
Await(w, task) == [w EXCEPT !.tasks = @ (+) SetToBag({task})]

\* MidiPlayer as constructed; "" stands for null
NewMidiPlayer ==
    [ synth |-> FALSE, initialized |-> FALSE, initializing |-> FALSE, loaded |-> FALSE,
      loadError |-> "", currentPrfName |-> "", pendingLoad |-> "" ]

\* the synthesizer as the calls made on it leave it: the PRF whose instruments
\* and the PRF whose MIDI were handed to it last ("" for none), and whether
\* play() was called on it with no stop() since
NewSynth == [instruments |-> "", midi |-> "", playing |-> FALSE]

\* the synthesizer is part of the state where `call` has a synth field
SynthTracked == "synth" \in DOMAIN call

\* the player, its MidiPlayer, the promises in flight and the calls made so
\* far; lastLoad is the PRF name of the latest loadForCutscene that went on
\* to its fetch, and overlapped tells that an earlier load was still
\* suspended when that call started
AudioWorld ==
    [ input |-> input, interpreter |-> interpreter, renderer |-> renderer,
      framebuffer |-> framebuffer, isPlaying |-> isPlaying, animationId |-> animationId,
      execLog |-> execLog, threw |-> threw,
      midi |-> call.midi, tasks |-> call.tasks,
      currentCutsceneName |-> call.currentCutsceneName,
      synth |-> IF SynthTracked THEN call.synth ELSE NewSynth,
      lastLoad |-> IF SynthTracked THEN call.lastLoad ELSE "",
      overlapped |-> IF SynthTracked THEN call.overlapped ELSE FALSE,
      events |-> << >>, deferred |-> << >> ]

\* MidiPlayer.getState, up to its first await
getState(w) ==
    IF ~w.midi.synth \/ ~w.midi.loaded
    THEN [Ev("midiState") EXCEPT !.a = 0, !.s = w.midi.loadError]
    ELSE [Ev("midiState") EXCEPT !.a = 1, !.s = ""]

\* MidiPlayer.notifyState: the callback runs once the awaited state resolves,
\* after the code that called notifyState has run to its next await
notifyState(w) == [w EXCEPT !.deferred = Append(@, getState(w))]

\* MidiPlayer.stopAndReset
stopAndReset(w) ==
    LET w1 == IF w.midi.synth
              THEN Emit(Emit(Emit([w EXCEPT !.synth.playing = FALSE], Ev("synth.stop")),
                             Ev("synth.panic")),
                        Ev("synth.resetState"))
              ELSE w
    IN  [w1 EXCEPT !.midi.loaded = FALSE, !.midi.currentPrfName = ""]

\* MidiPlayer.stop
midiStop(w) ==
    IF w.midi.synth THEN Emit([w EXCEPT !.synth.playing = FALSE], Ev("synth.stop")) ELSE w

\* MidiPlayer.play
midiPlay(w) ==
    IF w.midi.synth /\ w.midi.loaded
    THEN Emit([w EXCEPT !.synth.playing = TRUE], Ev("synth.play"))
    ELSE w

\* MidiPlayer.seek
midiSeek(w) == IF w.midi.synth /\ w.midi.loaded THEN Emit(w, Ev("synth.seek")) ELSE w

\* CutscenePlayer.play, after initAudioAndLoadMusic has resolved to musicLoaded;
\* the other callers drop the result
resolved(w, caller, musicLoaded) ==
    IF caller = "play" /\ musicLoaded THEN midiPlay(w) ELSE w

\* a loadForCutscene is suspended at one of its awaits
LoadInFlight(w) == \E t \in BagToSet(w.tasks) : t.kind \in {"prf", "midi"}

\* MidiPlayer.loadForCutscene up to its first await: a load that does not stop
\* short for a missing synth
loadForCutsceneEager(w, prfName, caller) ==
    LET w1 == stopAndReset(w)
        w2 == [w1 EXCEPT !.midi.loaded = FALSE, !.midi.loadError = "",
                         !.midi.currentPrfName = prfName, !.lastLoad = prfName,
                                  !.overlapped = LoadInFlight(w1)]
        w3 == Emit(w2, [Ev("fetch") EXCEPT !.s = prfName])
    IN  Await(w3, [kind |-> "prf", prf |-> prfName, caller |-> caller])

\* MidiPlayer.loadForCutscene up to its first await: without a synth the name
\* is kept as pending, with one the PRF fetch starts
loadForCutscene(w, prfName, caller) ==
    LET w1 == stopAndReset(w)
    IN  IF ~w1.midi.initialized
        THEN resolved(notifyState([w1 EXCEPT !.midi.pendingLoad = prfName,
                                             !.midi.currentPrfName = prfName,
                                             !.midi.loadError = "Click Play to enable audio"]),
                      caller, FALSE)
        ELSE IF ~w1.midi.synth THEN resolved(w1, caller, FALSE)
        ELSE LET w2 == [w1 EXCEPT !.midi.loaded = FALSE, !.midi.loadError = "",
                                  !.midi.currentPrfName = prfName, !.lastLoad = prfName,
                                  !.overlapped = LoadInFlight(w1)]
                 w3 == Emit(w2, [Ev("fetch") EXCEPT !.s = prfName])
             IN  Await(w3, [kind |-> "prf", prf |-> prfName, caller |-> caller])

\* MidiPlayer.loadPendingMusic
loadPendingMusic(w, caller) ==
    IF ~w.midi.initialized \/ w.midi.pendingLoad = ""
    THEN resolved(w, caller, FALSE)
    ELSE loadForCutscene([w EXCEPT !.midi.pendingLoad = ""], w.midi.pendingLoad, caller)

\* CutscenePlayer.initAudioAndLoadMusic after ensureInitialized has resolved
afterEnsureInitialized(w, caller, initialized) ==
    IF ~initialized THEN resolved(w, caller, FALSE)
    ELSE IF w.midi.pendingLoad # "" THEN loadPendingMusic(w, caller)
    ELSE IF w.currentCutsceneName # ""
            /\ getPrfName(w.currentCutsceneName) # "" /\ ~w.midi.loaded
    THEN loadForCutscene(w, getPrfName(w.currentCutsceneName), caller)
    ELSE resolved(w, caller, w.midi.loaded)

\* CutscenePlayer.initAudioAndLoadMusic up to its first pending promise;
\* MidiPlayer.ensureInitialized and init up to `await this.synth.init()`
initAudioAndLoadMusic(w, caller) ==
    IF w.midi.initialized THEN afterEnsureInitialized(w, caller, TRUE)
    ELSE IF w.midi.initializing THEN afterEnsureInitialized(w, caller, FALSE)
    ELSE Await([w EXCEPT !.midi.initializing = TRUE, !.midi.synth = TRUE],
               [kind |-> "init", prf |-> "", caller |-> caller])

\* CutscenePlayer.loadMusicForCutscene
loadMusicForCutscene(w, cutsceneName) ==
    LET prfName == getPrfName(cutsceneName)
    IN  IF prfName # "" THEN loadForCutscene(w, prfName, "loadCutscene")
        ELSE Emit(w, Ev("midiState"))

\* the interpreter and renderer of the player, as the interpreter's operators take them
WorldMachine(w) ==
    [state |-> w.interpreter, renderer |-> w.renderer, log |-> w.execLog,
     threw |-> w.threw, notified |-> << >>]

\* the frame-change callback registered with onStateChange receives each
\* state the interpreter hands to onFrameChange
StoreMachine(w, m) ==
    [w EXCEPT !.interpreter = m.state, !.renderer = m.renderer, !.execLog = m.log,
              !.threw = m.threw,
              !.events = @ \o [i \in DOMAIN m.notified |->
                                 [Ev("frameChange") EXCEPT !.a = m.notified[i].currentFrame,
                                                           !.b = m.notified[i].totalFrames,
                                                           !.c = m.notified[i].at]]]

\* CutscenePlayer.render
playerRender(w) == [w EXCEPT !.framebuffer = render(w.renderer)]

\* CutscenePlayer.stop
stop(w) ==
    LET w1 == Emit([w EXCEPT !.isPlaying = FALSE, !.animationId = FALSE], Ev("stop"))
    IN  IF audioEnabled THEN midiStop(w1) ELSE w1

\* loadCutscene that keeps the renderer of the cutscene it replaces
loadCutsceneKeepRenderer(w, cutscene) ==
    LET w1 == IF w.interpreter # NULL THEN stop(w) ELSE w
        w2 == Emit(stopAndReset(Emit(w1, Ev("stopAndReset"))), Ev("midiState"))
        r == loadShapes(w2.renderer, cutscene.shapes)
        m == renderCurrentFrame(NewInterpreter(cutscene, r), cutscene)
        w3 == StoreMachine(Emit([w2 EXCEPT !.input = cutscene], Ev("renderCurrentFrame")), m)
        w4 == [playerRender(w3) EXCEPT !.currentCutsceneName = cutscene.name]
    IN  IF audioEnabled /\ cutscene.name # ""
        THEN loadMusicForCutscene(w4, cutscene.name)
        ELSE w4

\* CutscenePlayer.loadCutscene
loadCutscene(w, cutscene) ==
    LET w1 == IF w.interpreter # NULL
              THEN Emit([stop(w) EXCEPT !.renderer = dispose(@)], Ev("dispose"))
              ELSE w
        w2 == Emit(stopAndReset(Emit(w1, Ev("stopAndReset"))), Ev("midiState"))
        r == loadShapes(NewRenderer, cutscene.shapes)
        m == renderCurrentFrame(NewInterpreter(cutscene, r), cutscene)
        w3 == StoreMachine(Emit([w2 EXCEPT !.input = cutscene], Ev("renderCurrentFrame")), m)
        w4 == [playerRender(w3) EXCEPT !.currentCutsceneName = cutscene.name]
    IN  IF audioEnabled /\ cutscene.name # ""
        THEN loadMusicForCutscene(w4, cutscene.name)
        ELSE w4

\* CutscenePlayer.play when not yet playing
play(w) ==
    LET w1 == [w EXCEPT !.isPlaying = TRUE, !.animationId = TRUE]
    IN  IF audioEnabled THEN initAudioAndLoadMusic(w1, "play") ELSE w1

\* CutscenePlayer.syncMidiToFrame
syncMidiToFrame(w) ==
    IF ~audioEnabled \/ ~w.midi.loaded THEN w
    ELSE IF w.interpreter # NULL THEN midiSeek(w) ELSE w

\* the interpreter call of a navigation method, then render()
navigate(w, m) ==
    playerRender(IF w.interpreter # NULL THEN StoreMachine(w, m) ELSE w)

\* store the world back; the callbacks notifyState has queued run last
AudioCommit(w, name, arg) ==
    /\ BagCardinality(w.tasks) <= MaxTasks
    /\ input' = w.input
    /\ interpreter' = w.interpreter
    /\ renderer' = w.renderer
    /\ framebuffer' = w.framebuffer
    /\ isPlaying' = w.isPlaying
    /\ animationId' = w.animationId
    /\ execLog' = w.execLog
    /\ threw' = w.threw
    /\ call' = IF SynthTracked
               THEN [midi |-> w.midi, tasks |-> w.tasks,
                     currentCutsceneName |-> w.currentCutsceneName,
                     synth |-> w.synth, lastLoad |-> w.lastLoad,
                     overlapped |-> w.overlapped]
               ELSE [midi |-> w.midi, tasks |-> w.tasks,
                     currentCutsceneName |-> w.currentCutsceneName]
    /\ result' = [events |-> w.events \o w.deferred]
    /\ lastOp' = [name |-> name, arg |-> arg]

AudioInit ==
    /\ input \in AudioCutscenes
    /\ interpreter = NULL
    /\ renderer = NewRenderer
    /\ framebuffer = << >>
    /\ isPlaying = FALSE
    /\ animationId = FALSE
    /\ execLog = << >>
    /\ threw = FALSE
    /\ lastOp = [name |-> "new", arg |-> 0]
    /\ call = [midi |-> NewMidiPlayer, tasks |-> EmptyBag, currentCutsceneName |-> ""]
    /\ result = [events |-> << >>]

AudioLoadCutscene(cutscene) == AudioCommit(loadCutscene(AudioWorld, cutscene), "loadCutscene", 0)

AudioPlay ==
    /\ ~isPlaying
    /\ AudioCommit(play(AudioWorld), "play", 0)

\* ensureAudioInitialized()
AudioEnsureInitialized ==
    AudioCommit(IF audioEnabled THEN initAudioAndLoadMusic(AudioWorld, "ensure") ELSE AudioWorld,
                "ensureAudioInitialized", 0)

AudioStop == AudioCommit(stop(AudioWorld), "stop", 0)

AudioNextFrame ==
    LET w == stop(AudioWorld)
    IN  AudioCommit(syncMidiToFrame(navigate(w, nextFrame(WorldMachine(w), w.input))),
                    "nextFrame", 0)

AudioPrevFrame ==
    LET w == stop(AudioWorld)
    IN  AudioCommit(syncMidiToFrame(navigate(w, prevFrame(WorldMachine(w), w.input))),
                    "prevFrame", 0)

AudioGoToFrame(frame) ==
    LET w == stop(AudioWorld)
    IN  AudioCommit(syncMidiToFrame(navigate(w, goToFrame(WorldMachine(w), w.input, frame))),
                    "goToFrame", frame)

AudioReset ==
    LET w == stop(AudioWorld)
        w1 == navigate(w, reset(WorldMachine(w), w.input))
    IN  AudioCommit(IF audioEnabled THEN midiSeek(w1) ELSE w1, "reset", 0)

\* animate(time) when the frame interval has elapsed
AudioAnimate ==
    /\ animationId
    /\ isPlaying
    /\ LET w == AudioWorld
           m == IF interpreter # NULL /\ interpreter.currentFrame < interpreter.totalFrames - 1
                THEN nextFrame(WorldMachine(w), w.input)
                ELSE reset(WorldMachine(w), w.input)
       IN  AudioCommit(navigate(w, m), "animate", 1)

\* the continuations that can be waiting
Tasks ==
    [kind : {"init"}, prf : {""}, caller : {"play", "ensure"}]
    \cup [kind : {"prf", "midi"}, prf : {"INTROL3", "REVEIL3"},
          caller : {"loadCutscene", "play", "ensure"}]

\* the promise a continuation waits for settles
Settle(t) == [AudioWorld EXCEPT !.tasks = @ (-) SetToBag({t})]

\* the catch block of loadForCutscene
loadFailed(w, caller) ==
    resolved(notifyState([w EXCEPT !.midi.loadError = "Failed to load music",
                                   !.midi.currentPrfName = ""]), caller, FALSE)

\* `await this.synth.init()` settles: init() finishes and its caller goes on
InitSettles(t, ok) ==
    /\ BagIn(t, call.tasks)
    /\ t.kind = "init"
    /\ LET w == Settle(t)
       IN  IF ok
           THEN AudioCommit(afterEnsureInitialized(
                                [w EXCEPT !.midi.initialized = TRUE, !.midi.initializing = FALSE],
                                t.caller, TRUE),
                            "initSucceeded", 0)
           ELSE AudioCommit(afterEnsureInitialized(
                                notifyState([w EXCEPT !.midi.loadError = "Audio requires user interaction",
                                                      !.midi.initializing = FALSE]),
                                t.caller, FALSE),
                            "initFailed", 0)

\* the PRF fetch settles: on success the MIDI fetch starts
PrfFetchSettles(t, ok) ==
    /\ BagIn(t, call.tasks)
    /\ t.kind = "prf"
    /\ LET w == Settle(t)
       IN  IF ok
           THEN AudioCommit(Await(w, [t EXCEPT !.kind = "midi"]), "prfLoaded", 0)
           ELSE AudioCommit(loadFailed(w, t.caller), "loadFailed", 0)

\* the MIDI fetch, the instrument loads and synth.loadMidi settle: the
\* instruments of the PRF are injected, then its MIDI is loaded
MidiLoadSettles(t, ok) ==
    /\ BagIn(t, call.tasks)
    /\ t.kind = "midi"
    /\ LET w == Settle(t)
       IN  IF ok
           THEN AudioCommit(resolved(notifyState([w EXCEPT !.midi.loaded = TRUE,
                                                            !.synth.instruments = t.prf,
                                                            !.synth.midi = t.prf]),
                                     t.caller, TRUE),
                            "musicLoaded", 0)
           ELSE AudioCommit(loadFailed(w, t.caller), "loadFailed", 1)

AudioFrameArgs == -1 .. 3

AudioNext ==
    \/ \E cutscene \in AudioCutscenes : AudioLoadCutscene(cutscene)
    \/ AudioPlay
    \/ AudioEnsureInitialized
    \/ AudioStop
    \/ AudioNextFrame
    \/ AudioPrevFrame
    \/ \E frame \in AudioFrameArgs : AudioGoToFrame(frame)
    \/ AudioReset
    \/ AudioAnimate
    \/ \E t \in Tasks, ok \in BOOLEAN :
          \/ InitSettles(t, ok)
          \/ PrfFetchSettles(t, ok)
          \/ MidiLoadSettles(t, ok)

SpecAudio == AudioInit /\ [][AudioNext]_vars

\* SpecMusic: the same player, with the synthesizer as part of the state
MusicInit ==
    /\ input \in AudioCutscenes
    /\ interpreter = NULL
    /\ renderer = NewRenderer
    /\ framebuffer = << >>
    /\ isPlaying = FALSE
    /\ animationId = FALSE
    /\ execLog = << >>
    /\ threw = FALSE
    /\ lastOp = [name |-> "new", arg |-> 0]
    /\ call = [midi |-> NewMidiPlayer, tasks |-> EmptyBag, currentCutsceneName |-> "",
               synth |-> NewSynth, lastLoad |-> "", overlapped |-> FALSE]
    /\ result = [events |-> << >>]

MusicNext == AudioNext

SpecMusic == MusicInit /\ [][MusicNext]_vars

----------------------------------------------------------------------------
(* MidiPlayer.setChannelInstrument / loadInsFile *)

\* instrument names as character sequences
InsNames == { <<"b", "a", "s", "s", "a">>, <<"L", "e", "a", "d">>, <<"a">> }

UpperOf == [a |-> "A", b |-> "B", d |-> "D", e |-> "E", s |-> "S", L |-> "L"]
LowerOf == [a |-> "a", b |-> "b", d |-> "d", e |-> "e", s |-> "s", L |-> "l"]

insToUpperCase(name) == [i \in DOMAIN name |-> UpperOf[name[i]]]
insToLowerCase(name) == [i \in DOMAIN name |-> LowerOf[name[i]]]

\* loadInsFile: the exact name, then the name without a trailing 'a'
namesToTry(insName) ==
    IF insToLowerCase(insName)[Len(insName)] = "a" /\ Len(insName) > 1
    THEN << insToUpperCase(insName), SubSeq(insToUpperCase(insName), 1, Len(insName) - 1) >>
    ELSE << insToUpperCase(insName) >>

\* what fetching one INS path gives: a network failure, an HTTP status that
\* is not ok, or a body of some length and first byte
InsResponses ==
    { [status |-> "network", byteLength |-> 0, firstByte |-> 0],
      [status |-> "http", byteLength |-> 0, firstByte |-> 0],
      [status |-> "ok", byteLength |-> 79, firstByte |-> 0],
      [status |-> "ok", byteLength |-> 81, firstByte |-> 1],
      [status |-> "ok", byteLength |-> 80, firstByte |-> 2],
      [status |-> "ok", byteLength |-> 80, firstByte |-> 255],
      [status |-> "ok", byteLength |-> 80, firstByte |-> 0],
      [status |-> "ok", byteLength |-> 80, firstByte |-> 1] }

\* loadInsFile accepting a body of any length
UsableAnyLength(response) ==
    /\ response.status = "ok"
    /\ ~(response.firstByte > 1)

\* loadInsFile: the candidate is not skipped
Usable(response) ==
    /\ response.status = "ok"
    /\ ~(response.byteLength # 80)
    /\ ~(response.firstByte > 1)

\* loadInsFile: the parsed data of the first usable candidate, or null
RECURSIVE loadInsFileFrom(_, _)
loadInsFileFrom(responses, i) ==
    IF i > Len(responses) THEN NULL
    ELSE IF Usable(responses[i])
         THEN [mode |-> responses[i].firstByte, file |-> i]
         ELSE loadInsFileFrom(responses, i + 1)

loadInsFile(responses) == loadInsFileFrom(responses, 1)

\* the names recorded per channel before the call
PriorInstrument == <<"o", "l", "d">>
NewChannelInstruments == [c \in 0 .. 15 |-> PriorInstrument]

InsChannels == {-1, 0, 15, 16}

\* one response per candidate name
ResponseLists ==
    { << r >> : r \in InsResponses } \cup { << r, q >> : r \in InsResponses, q \in InsResponses }

\* the call's arguments, whether a synth exists, what each fetch answers and
\* whether synth.setInstrument rejects
InsCalls ==
    { c \in [channel : InsChannels, name : InsNames, synth : BOOLEAN,
             responses : ResponseLists, rejects : BOOLEAN] :
        Len(c.responses) = Len(namesToTry(c.name)) }

InsInit ==
    /\ input = NULL
    /\ interpreter = NULL
    /\ renderer = NewRenderer
    /\ framebuffer = << >>
    /\ isPlaying = FALSE
    /\ animationId = FALSE
    /\ execLog = << >>
    /\ threw = FALSE
    /\ lastOp = [name |-> "new", arg |-> 0]
    /\ call \in InsCalls
    /\ result = [stage |-> "idle", returned |-> "pending", insData |-> NULL,
                 injected |-> << >>, channelInstruments |-> NewChannelInstruments]

InsUnchanged ==
    UNCHANGED << input, interpreter, renderer, framebuffer, isPlaying, animationId,
                 execLog, threw, call >>

\* setChannelInstrument up to `await this.loadInsFile(instrumentName)`
SetChannelInstrument ==
    /\ result.stage = "idle"
    /\ IF call.channel < 0 \/ call.channel > 15 \/ ~call.synth
       THEN result' = [result EXCEPT !.stage = "done", !.returned = "false"]
       ELSE result' = [result EXCEPT !.stage = "loadInsFile"]
    /\ lastOp' = [name |-> "setChannelInstrument", arg |-> call.channel]
    /\ InsUnchanged

\* loadInsFile resolves: null ends the call, data goes to synth.setInstrument
InsFileLoaded ==
    /\ result.stage = "loadInsFile"
    /\ LET insData == loadInsFile(call.responses)
       IN  IF insData = NULL
           THEN result' = [result EXCEPT !.stage = "done", !.returned = "false"]
           ELSE result' = [result EXCEPT !.stage = "setInstrument", !.insData = insData]
    /\ lastOp' = [name |-> "loadInsFile", arg |-> call.channel]
    /\ InsUnchanged

\* synth.setInstrument settles: the name is recorded, or the catch returns false
SetInstrumentSettles ==
    /\ result.stage = "setInstrument"
    /\ IF call.rejects
       THEN result' = [result EXCEPT !.stage = "done", !.returned = "false"]
       ELSE result' = [result EXCEPT
                          !.stage = "done", !.returned = "true",
                          !.injected = Append(@, [channel |-> call.channel,
                                                  percussive |-> result.insData.mode # 0]),
                          !.channelInstruments[call.channel] = insToLowerCase(call.name)]
    /\ lastOp' = [name |-> "setInstrument", arg |-> call.channel]
    /\ InsUnchanged

InsNext ==
    \/ SetChannelInstrument
    \/ InsFileLoaded
    \/ SetInstrumentSettles

SpecIns == InsInit /\ [][InsNext]_vars

----------------------------------------------------------------------------
(* parseIns / insToOpl3 on the bytes of an INS file *)

\* DataView.getUint16(offset, true): little-endian
LEUint16At(data, pos) == data[pos + 1] + 256 * data[pos + 2]

\* parseOperator: thirteen 16-bit words, the flags compared with 0
parseOperator(data, offset) ==
    [ keyScaling |-> LEUint16At(data, offset + 0),
      frequencyMultiplier |-> LEUint16At(data, offset + 2),
      feedbackStrength |-> LEUint16At(data, offset + 4),
      attackRate |-> LEUint16At(data, offset + 6),
      sustainLevel |-> LEUint16At(data, offset + 8),
      sustainSound |-> LEUint16At(data, offset + 10) # 0,
      decayRate |-> LEUint16At(data, offset + 12),
      releaseRate |-> LEUint16At(data, offset + 14),
      outputLevel |-> LEUint16At(data, offset + 16),
      amplitudeVibrato |-> LEUint16At(data, offset + 18) # 0,
      frequencyVibrato |-> LEUint16At(data, offset + 20) # 0,
      envelopeScaling |-> LEUint16At(data, offset + 22) # 0,
      frequencyModulation |-> LEUint16At(data, offset + 24) # 0 ]

\* parseIns that takes any buffer holding the bytes it reads
parseInsMin77(buffer) ==
    IF Len(buffer) < 77 THEN Thrown
    ELSE [ ok |-> TRUE, mode |-> buffer[1], channelNum |-> buffer[2],
           modulatorWaveSelect |-> BitAnd(buffer[75], 7),
           carrierWaveSelect |-> BitAnd(buffer[77], 7),
           modulator |-> parseOperator(buffer, 2),
           carrier |-> parseOperator(buffer, 28) ]

\* parseIns: throws on a buffer of less than 80 bytes
parseIns(buffer) ==
    IF Len(buffer) < 80 THEN Thrown
    ELSE [ ok |-> TRUE, mode |-> buffer[1], channelNum |-> buffer[2],
           modulatorWaveSelect |-> BitAnd(buffer[75], 7),
           carrierWaveSelect |-> BitAnd(buffer[77], 7),
           modulator |-> parseOperator(buffer, 2),
           carrier |-> parseOperator(buffer, 28) ]

\* convertOperator that passes the words on as they are
convertOperatorRaw(ins, waveSelect) ==
    [ am |-> ins.amplitudeVibrato, vibrato |-> ins.frequencyVibrato,
      sustaining |-> ins.sustainSound, ksr |-> ins.envelopeScaling,
      freqMult |-> ins.frequencyMultiplier, keyScaleLevel |-> ins.keyScaling,
      totalLevel |-> ins.outputLevel, attack |-> ins.attackRate,
      decay |-> ins.decayRate, sustain |-> ins.sustainLevel,
      release |-> ins.releaseRate, waveform |-> waveSelect ]

convertOperator(ins, waveSelect) ==
    [ am |-> ins.amplitudeVibrato, vibrato |-> ins.frequencyVibrato,
      sustaining |-> ins.sustainSound, ksr |-> ins.envelopeScaling,
      freqMult |-> BitAnd(ins.frequencyMultiplier, 15),
      keyScaleLevel |-> BitAnd(ins.keyScaling, 3),
      totalLevel |-> BitAnd(ins.outputLevel, 63),
      attack |-> BitAnd(ins.attackRate, 15),
      decay |-> BitAnd(ins.decayRate, 15),
      sustain |-> BitAnd(ins.sustainLevel, 15),
      release |-> BitAnd(ins.releaseRate, 15),
      waveform |-> BitAnd(waveSelect, 7) ]

defaultOperator ==
    [ am |-> FALSE, vibrato |-> FALSE, sustaining |-> FALSE, ksr |-> FALSE,
      freqMult |-> 0, keyScaleLevel |-> 0, totalLevel |-> 63, attack |-> 0,
      decay |-> 0, sustain |-> 0, release |-> 0, waveform |-> 0 ]

\* insToOpl3 with the connection bit equal to the flag
insToOpl3FlagAsConnection(ins, noteOffset, velocityOffset) ==
    [ is4op |-> FALSE, isBlank |-> FALSE, rhythmMode |-> 0,
      feedback1 |-> BitAnd(ins.modulator.feedbackStrength, 7),
      connection1 |-> IF ins.modulator.frequencyModulation THEN 1 ELSE 0,
      feedback2 |-> 0, connection2 |-> 0,
      noteOffset1 |-> noteOffset, velocityOffset |-> velocityOffset,
      operators |-> << convertOperator(ins.modulator, ins.modulatorWaveSelect),
                       convertOperator(ins.carrier, ins.carrierWaveSelect),
                       defaultOperator, defaultOperator >> ]

insToOpl3(ins, noteOffset, velocityOffset) ==
    [ is4op |-> FALSE, isBlank |-> FALSE, rhythmMode |-> 0,
      feedback1 |-> BitAnd(ins.modulator.feedbackStrength, 7),
      connection1 |-> IF ins.modulator.frequencyModulation THEN 0 ELSE 1,
      feedback2 |-> 0, connection2 |-> 0,
      noteOffset1 |-> noteOffset, velocityOffset |-> velocityOffset,
      operators |-> << convertOperator(ins.modulator, ins.modulatorWaveSelect),
                       convertOperator(ins.carrier, ins.carrierWaveSelect),
                       defaultOperator, defaultOperator >> ]

\* loadInsFile for one fetched body: the checks before parseIns
loadInsBuffer(buffer) ==
    IF Usable([status |-> "ok", byteLength |-> Len(buffer),
               firstByte |-> IF Len(buffer) > 0 THEN buffer[1] ELSE 0])
    THEN parseIns(buffer)
    ELSE NULL

\* the thirteen words of an operator: all clear, all set, values within the
\* documented widths, values with bits above them
OperatorWords ==
    { [i \in 1 .. 13 |-> 0],
      [i \in 1 .. 13 |-> 65535],
      << 1, 1, 6, 15, 4, 1, 2, 7, 20, 0, 1, 0, 1 >>,
      << 4, 16, 8, 271, 4096, 0, 256, 17, 64, 2, 0, 256, 0 >> }

InsModes == {0, 1, 2, 255}
InsWaves == {0, 7, 8, 255}
InsLengths == {0, 77, 79, 80, 81}

\* the byte at an offset of the INS file with these fields
InsByte(mode, modulator, carrier, modWave, carWave, offset) ==
    CASE offset = 0 -> mode
      [] offset = 1 -> 6
      [] offset >= 2 /\ offset < 28 ->
            LET w == modulator[(offset - 2) \div 2 + 1]
            IN  IF offset % 2 = 0 THEN w % 256 ELSE w \div 256
      [] offset >= 28 /\ offset < 54 ->
            LET w == carrier[(offset - 28) \div 2 + 1]
            IN  IF offset % 2 = 0 THEN w % 256 ELSE w \div 256
      [] offset = 74 -> modWave
      [] offset = 76 -> carWave
      [] OTHER -> 0

InsFile(mode, modulator, carrier, modWave, carWave, length) ==
    [i \in 1 .. length |-> InsByte(mode, modulator, carrier, modWave, carWave, i - 1)]

InsFileInit ==
    /\ input = NULL
    /\ interpreter = NULL
    /\ renderer = NewRenderer
    /\ framebuffer = << >>
    /\ isPlaying = FALSE
    /\ animationId = FALSE
    /\ execLog = << >>
    /\ threw = FALSE
    /\ lastOp = [name |-> "new", arg |-> 0]
    /\ \E mode \in InsModes, modulator \in OperatorWords, carrier \in OperatorWords,
          wave \in InsWaves, length \in InsLengths :
          call = [ file |-> InsFile(mode, modulator, carrier, wave, 255 - wave, length),
                   modulator |-> modulator, carrier |-> carrier ]
    /\ result = [stage |-> "fetched"]

\* parseIns(buffer), called on the body as it is
ParseIns ==
    /\ result.stage = "fetched"
    /\ result' = [stage |-> "parseIns", ins |-> parseIns(call.file)]
    /\ lastOp' = [name |-> "parseIns", arg |-> 0]
    /\ InsUnchanged

\* loadInsFile: the body is checked, then parsed
LoadInsFile ==
    /\ result.stage = "fetched"
    /\ result' = [stage |-> "loadInsFile", ins |-> loadInsBuffer(call.file)]
    /\ lastOp' = [name |-> "loadInsFile", arg |-> 0]
    /\ InsUnchanged

\* insToOpl3(insData, { noteOffset, velocityOffset }) on the data either gave
InsToOpl3(noteOffset) ==
    /\ result.stage \in {"parseIns", "loadInsFile"}
    /\ result.ins # NULL
    /\ result.ins.ok
    /\ result' = [stage |-> "insToOpl3", ins |-> result.ins,
                  opl3 |-> insToOpl3(result.ins, noteOffset, 0)]
    /\ lastOp' = [name |-> "insToOpl3", arg |-> noteOffset]
    /\ InsUnchanged

InsFileNext ==
    \/ ParseIns
    \/ LoadInsFile
    \/ \E noteOffset \in {-12, 0} : InsToOpl3(noteOffset)

SpecInsFile == InsFileInit /\ [][InsFileNext]_vars

----------------------------------------------------------------------------
(* Graphics: the software rasterizer *)

\* width and height of the framebuffers the rasterizer is run on
GfxWidth == 4
GfxHeight == 3

MinOf(a, b) == IF a < b THEN a ELSE b
MaxOf(a, b) == IF a > b THEN a ELSE b
AbsOf(a) == IF a < 0 THEN -a ELSE a

\* Math.trunc(a / b) for b > 0
TruncDiv(a, b) == IF a >= 0 THEN a \div b ELSE -((-a) \div b)

\* (v << 16) >> 16: the low 16 bits of v read as a signed word
Int16Of(v) == LET w == v % 65536 IN IF w >= 32768 THEN w - 65536 ELSE w

\* v << 16 on 32-bit integers
Shl16(v) == Int16Of(v) * 65536

\* v >> 16 for v within 32 bits (every value the model range produces is)
Sar16(v) == v \div 65536

\* new ImageData(width, height): transparent black
TransparentBlack == [r |-> 0, g |-> 0, b |-> 0, a |-> 0]

\* new Graphics(width, height); `written` lists the pixel stores of the
\* calls made so far, as << px, py >>, in order
NewGraphics(width, height) ==
    [ width |-> width, height |-> height,
      pixels |-> [idx \in 0 .. width * height - 1 |-> TransparentBlack],
      crx |-> 0, cry |-> 0, crw |-> width, crh |-> height,
      written |-> << >> ]

setClippingRect(g, rx, ry, rw, rh) ==
    [g EXCEPT !.crx = rx, !.cry = ry, !.crw = rw, !.crh = rh]

clear(g, color) ==
    [g EXCEPT !.pixels = [idx \in DOMAIN g.pixels |->
                             [r |-> color.r, g |-> color.g, b |-> color.b, a |-> 255]]]

\* the four stores this.pixels[idx .. idx + 3] = ... of one pixel; a store at
\* an index outside the typed array is dropped
StorePixel(g, px, py, rgba) ==
    LET idx == py * g.width + px
    IN  [g EXCEPT !.pixels = IF idx \in DOMAIN g.pixels THEN [@ EXCEPT ![idx] = rgba] ELSE @,
                  !.written = Append(@, << px, py >>)]

drawPoint(g, color, x, y) ==
    IF x >= 0 /\ x < g.crw /\ y >= 0 /\ y < g.crh
    THEN LET px == x + g.crx
             py == y + g.cry
         IN  IF px >= 0 /\ px < g.width /\ py >= 0 /\ py < g.height
             THEN StorePixel(g, px, py,
                             [r |-> color.r, g |-> color.g, b |-> color.b, a |-> 255])
             ELSE g
    ELSE g

\* the loop of drawLine: delta2 steps are left, the pen is at (px, py)
RECURSIVE LineSteps(_, _, _, _, _, _, _)
LineSteps(g, color, l, px, py, oct, delta2) ==
    IF delta2 - 1 < 0 THEN g
    ELSE LET diag == oct >= 0
             nx == px + (IF diag THEN l.dxincr1 ELSE l.dxincr2)
             ny == py + (IF diag THEN l.dyincr1 ELSE l.dyincr2)
             noct == oct + (IF diag THEN l.octincr1 ELSE l.octincr2)
         IN  LineSteps(drawPoint(g, color, nx, ny), color, l, nx, ny, noct, delta2 - 1)

drawLine(g, color, x1, y1, x2, y2) ==
    LET dxincr1 == IF x2 - x1 < 0 THEN -1 ELSE 1
        dyincr1 == IF y2 - y1 < 0 THEN -1 ELSE 1
        dx == AbsOf(x2 - x1)
        dy == AbsOf(y2 - y1)
        steep == dx < dy
        delta1 == IF steep THEN dx ELSE dy
        delta2 == IF steep THEN dy ELSE dx
        l == [ dxincr1 |-> dxincr1, dyincr1 |-> dyincr1,
               dxincr2 |-> IF steep THEN 0 ELSE dxincr1,
               dyincr2 |-> IF steep THEN dyincr1 ELSE 0,
               octincr1 |-> delta1 * 2 - delta2 * 2,
               octincr2 |-> delta1 * 2 ]
    IN  IF delta2 >= 0
        THEN LineSteps(drawPoint(g, color, x1, y1), color, l, x1, y1,
                       delta1 * 2 - delta2, delta2)
        ELSE g

\* the 50% blend of one channel halved before the sum
BlendHalves(old, new) == ShiftRight(old, 1) + ShiftRight(new, 1)

\* (this.pixels[idx] + color.r) >> 1
Blend(old, new) == ShiftRight(old + new, 1)

\* the body of the loop of drawHorizontalSpan for one x
SpanPixel(g, color, hasAlpha, py, x) ==
    LET px == x + g.crx
        idx == py * g.width + px
        old == g.pixels[idx]
    IN  IF px >= 0 /\ px < g.width
        THEN StorePixel(g, px, py,
                        IF hasAlpha
                        THEN [r |-> Blend(old.r, color.r), g |-> Blend(old.g, color.g),
                              b |-> Blend(old.b, color.b), a |-> 255]
                        ELSE [r |-> color.r, g |-> color.g, b |-> color.b, a |-> 255])
        ELSE g

RECURSIVE SpanFrom(_, _, _, _, _, _)
SpanFrom(g, color, hasAlpha, py, x, endX) ==
    IF x > endX THEN g
    ELSE SpanFrom(SpanPixel(g, color, hasAlpha, py, x), color, hasAlpha, py, x + 1, endX)

\* drawHorizontalSpan that trusts its caller for x1 and x2
drawHorizontalSpanUnclamped(g, color, hasAlpha, y, x1, x2) ==
    IF y < 0 \/ y >= g.crh THEN g
    ELSE IF y + g.cry < 0 \/ y + g.cry >= g.height THEN g
    ELSE SpanFrom(g, color, hasAlpha, y + g.cry, x1, x2)

drawHorizontalSpan(g, color, hasAlpha, y, x1, x2) ==
    IF y < 0 \/ y >= g.crh THEN g
    ELSE IF y + g.cry < 0 \/ y + g.cry >= g.height THEN g
    ELSE SpanFrom(g, color, hasAlpha, y + g.cry, MaxOf(0, x1), MinOf(g.crw - 1, x2))

\* vertices are numbered from 0 as in the source
VertexAt(vertices, i) == vertices[i + 1]
prevIdx(i, numPts) == IF i = 0 THEN numPts - 1 ELSE i - 1
nextIdx(i, numPts) == IF i = numPts - 1 THEN 0 ELSE i + 1

\* the bounding box and the first vertex of least y, over vertices 0 .. i
RECURSIVE BoundsUpTo(_, _)
BoundsUpTo(vertices, i) ==
    IF i = 0
    THEN [ xmin |-> vertices[1].x, xmax |-> vertices[1].x,
           ymin |-> vertices[1].y, ymax |-> vertices[1].y, topIdx |-> 0 ]
    ELSE LET b == BoundsUpTo(vertices, i - 1)
             v == VertexAt(vertices, i)
         IN  [ xmin |-> MinOf(b.xmin, v.x), xmax |-> MaxOf(b.xmax, v.x),
               ymin |-> MinOf(b.ymin, v.y), ymax |-> MaxOf(b.ymax, v.y),
               topIdx |-> IF v.y < b.ymin THEN i ELSE b.topIdx ]

\* the x step per row of the left edge, 16.16 fixed point
calcPolyStep1(dx, dy) ==
    IF dy = 0 THEN 0
    ELSE LET a == dx * 256
         IN  IF AbsOf(Sar16(a)) < dy
             THEN Int16Of(TruncDiv(a, dy)) * 256
             ELSE Shl16(BitAnd(TruncDiv(TruncDiv(a, 256), dy) % 65536, 65535))

\* the x step per row of the right edge
calcPolyStep2(dx, dy) ==
    IF dy = 0 THEN 0
    ELSE LET a == dx * 256
         IN  IF AbsOf(Sar16(a)) < dy
             THEN Int16Of(TruncDiv(a, dy)) * 256
             ELSE Shl16(TruncDiv(TruncDiv(a, 256), dy))

\* the edge walk: e holds leftIdx, rightIdx, leftX, rightX, leftDx, rightDx,
\* leftEndY and rightEndY
advanceLeftEdge(vertices, e) ==
    LET from == VertexAt(vertices, e.leftIdx)
        toIdx == prevIdx(e.leftIdx, Len(vertices))
        to == VertexAt(vertices, toIdx)
    IN  IF to.y > from.y
        THEN [e EXCEPT !.leftIdx = toIdx, !.leftEndY = to.y, !.leftX = Shl16(from.x),
                       !.leftDx = calcPolyStep1(to.x - from.x, to.y - from.y)]
        ELSE [e EXCEPT !.leftIdx = toIdx, !.leftEndY = to.y]

advanceRightEdge(vertices, e) ==
    LET from == VertexAt(vertices, e.rightIdx)
        toIdx == nextIdx(e.rightIdx, Len(vertices))
        to == VertexAt(vertices, toIdx)
    IN  IF to.y > from.y
        THEN [e EXCEPT !.rightIdx = toIdx, !.rightEndY = to.y, !.rightX = Shl16(from.x),
                       !.rightDx = calcPolyStep2(to.x - from.x, to.y - from.y)]
        ELSE [e EXCEPT !.rightIdx = toIdx, !.rightEndY = to.y]

\* while (y >= leftEndY && leftIdx !== rightIdx) advanceLeftEdge()
RECURSIVE AdvanceLeftWhile(_, _, _)
AdvanceLeftWhile(vertices, e, y) ==
    IF y >= e.leftEndY /\ e.leftIdx # e.rightIdx
    THEN AdvanceLeftWhile(vertices, advanceLeftEdge(vertices, e), y)
    ELSE e

RECURSIVE AdvanceRightWhile(_, _, _)
AdvanceRightWhile(vertices, e, y) ==
    IF y >= e.rightEndY /\ e.leftIdx # e.rightIdx
    THEN AdvanceRightWhile(vertices, advanceRightEdge(vertices, e), y)
    ELSE e

\* the scanline loop of drawPolygon from row y to row endY
RECURSIVE ScanRows(_, _, _, _, _, _, _)
ScanRows(g, color, hasAlpha, vertices, e, y, endY) ==
    IF y > endY THEN g
    ELSE LET e1 == AdvanceRightWhile(vertices, AdvanceLeftWhile(vertices, e, y), y)
             xl == Sar16(e1.leftX + 32768)
             xr == Sar16(e1.rightX + 32768)
             x1 == MaxOf(0, MinOf(xl, xr))
             x2 == MinOf(g.crw - 1, MaxOf(xl, xr))
             g1 == IF x1 <= x2 THEN drawHorizontalSpan(g, color, hasAlpha, y, x1, x2) ELSE g
         IN  ScanRows(g1, color, hasAlpha, vertices,
                      [e1 EXCEPT !.leftX = @ + e1.leftDx, !.rightX = @ + e1.rightDx],
                      y + 1, endY)

drawPolygon(g, color, hasAlpha, vertices) ==
    LET numPts == Len(vertices)
        b == BoundsUpTo(vertices, numPts - 1)
        top == VertexAt(vertices, b.topIdx)
        e0 == [ leftIdx |-> b.topIdx, rightIdx |-> b.topIdx,
                leftX |-> Shl16(top.x), rightX |-> Shl16(top.x),
                leftDx |-> 0, rightDx |-> 0, leftEndY |-> top.y, rightEndY |-> top.y ]
        e1 == advanceRightEdge(vertices, advanceLeftEdge(vertices, e0))
        skip == IF b.ymin < 0 THEN -b.ymin ELSE 0
        e2 == [e1 EXCEPT !.leftX = @ + e1.leftDx * skip, !.rightX = @ + e1.rightDx * skip]
    IN  IF numPts < 2 THEN g
        ELSE IF numPts = 2
        THEN drawLine(g, color, vertices[1].x, vertices[1].y, vertices[2].x, vertices[2].y)
        ELSE IF b.xmax < 0 \/ b.xmin >= g.crw \/ b.ymax < 0 \/ b.ymin >= g.crh THEN g
        ELSE IF b.ymax = b.ymin
        THEN drawHorizontalSpan(g, color, hasAlpha, b.ymin,
                                MaxOf(0, b.xmin), MinOf(g.crw - 1, b.xmax))
        ELSE ScanRows(g, color, hasAlpha, vertices, e2,
                      MaxOf(0, b.ymin), MinOf(g.crh - 1, b.ymax))

\* Math.round(k / 4)
RoundQuarters(k) == (k + 2) \div 4

\* addSpan: the spans are kept in the order their rows were first added
addSpan(spans, crh, y, x1, x2) ==
    IF y < 0 \/ y >= crh THEN spans
    ELSE IF \E i \in DOMAIN spans : spans[i].y = y
    THEN [i \in DOMAIN spans |->
             IF spans[i].y = y
             THEN [y |-> y, x1 |-> MinOf(spans[i].x1, x1), x2 |-> MaxOf(spans[i].x2, x2)]
             ELSE spans[i]]
    ELSE Append(spans, [y |-> y, x1 |-> x1, x2 |-> x2])

\* the two rows a step of the midpoint walk adds
AddSpanPair(spans, crh, cx, cy, x, y) ==
    addSpan(addSpan(spans, crh, cy + y, cx - x, cx + x), crh, cy - y, cx - x, cx + x)

\* region 1 of the midpoint walk: w holds x, y, px, py, p and the spans
RECURSIVE EllipseRegion1(_, _, _, _, _, _)
EllipseRegion1(w, crh, cx, cy, rxSq, rySq) ==
    IF ~(w.px < w.py) THEN w
    ELSE LET spans == AddSpanPair(w.spans, crh, cx, cy, w.x, w.y)
             px == w.px + 2 * rySq
         IN  EllipseRegion1(
                 IF w.p < 0
                 THEN [w EXCEPT !.spans = spans, !.x = @ + 1, !.px = px,
                                !.p = @ + rySq + px]
                 ELSE [w EXCEPT !.spans = spans, !.x = @ + 1, !.px = px, !.y = @ - 1,
                                !.py = @ - 2 * rxSq,
                                !.p = @ + rySq + px - (w.py - 2 * rxSq)],
                 crh, cx, cy, rxSq, rySq)

\* region 2 of the midpoint walk
RECURSIVE EllipseRegion2(_, _, _, _, _, _)
EllipseRegion2(w, crh, cx, cy, rxSq, rySq) ==
    IF ~(w.y >= 0) THEN w
    ELSE LET spans == AddSpanPair(w.spans, crh, cx, cy, w.x, w.y)
             py == w.py - 2 * rxSq
         IN  EllipseRegion2(
                 IF w.p > 0
                 THEN [w EXCEPT !.spans = spans, !.y = @ - 1, !.py = py,
                                !.p = @ + rxSq - py]
                 ELSE [w EXCEPT !.spans = spans, !.y = @ - 1, !.py = py, !.x = @ + 1,
                                !.px = @ + 2 * rySq,
                                !.p = @ + rxSq - py + (w.px + 2 * rySq)],
                 crh, cx, cy, rxSq, rySq)

\* for (const [spanY, span] of spans) drawHorizontalSpan(...)
RECURSIVE FillSpans(_, _, _, _, _)
FillSpans(g, color, hasAlpha, spans, i) ==
    IF i > Len(spans) THEN g
    ELSE FillSpans(drawHorizontalSpan(g, color, hasAlpha, spans[i].y, spans[i].x1, spans[i].x2),
                   color, hasAlpha, spans, i + 1)

drawEllipse(g, color, hasAlpha, cx, cy, rx, ry) ==
    LET rxSq == rx * rx
        rySq == ry * ry
        w0 == [ x |-> 0, y |-> ry, px |-> 0, py |-> 2 * rxSq * ry,
                p |-> rySq - rxSq * ry + RoundQuarters(rxSq), spans |-> << >> ]
        w1 == EllipseRegion1(w0, g.crh, cx, cy, rxSq, rySq)
        w2 == EllipseRegion2(
                  [w1 EXCEPT !.p = RoundQuarters(rySq * (2 * w1.x + 1) * (2 * w1.x + 1))
                                   + rxSq * (w1.y - 1) * (w1.y - 1) - rxSq * rySq],
                  g.crh, cx, cy, rxSq, rySq)
    IN  IF rx <= 0 \/ ry <= 0 THEN drawPoint(g, color, cx, cy)
        ELSE FillSpans(g, color, hasAlpha, w2.spans, 1)

----------------------------------------------------------------------------
(* SpecGfx: one drawing call on a prepared Graphics *)

\* most vertices of a generated polygon, and the largest generated radius
MaxVertices == 4
MaxRadius == 2

\* the colour drawn with, and another one
TargetColor == [r |-> 255, g |-> 17, b |-> 0]
OtherColor == [r |-> 34, g |-> 85, b |-> 119]

\* clipping rectangles << rx, ry, rw, rh >>: the whole frame, a window inside
\* it, one that exceeds it on every side, and one shifted past its right and
\* bottom edges
GfxClips ==
    { << 0, 0, GfxWidth, GfxHeight >>, << 1, 1, GfxWidth - 2, GfxHeight - 1 >>,
      << -1, -1, GfxWidth + 2, GfxHeight + 2 >>, << 2, 1, GfxWidth, GfxHeight >> }

\* the framebuffers a call starts from: as constructed, cleared to the
\* colour drawn with, cleared to the other colour
GfxStarts ==
    { NewGraphics(GfxWidth, GfxHeight), clear(NewGraphics(GfxWidth, GfxHeight), TargetColor),
      clear(NewGraphics(GfxWidth, GfxHeight), OtherColor) }

\* vertex coordinates: inside the frame and beyond each of its edges
GfxPoints ==
    { [x |-> -1, y |-> -1], [x |-> GfxWidth, y |-> 1], [x |-> 1, y |-> GfxHeight],
      [x |-> 2, y |-> 0], [x |-> 0, y |-> 2], [x |-> GfxWidth - 1, y |-> GfxHeight - 1] }

RECURSIVE VertexLists(_)
VertexLists(n) ==
    IF n = 0 THEN { << >> }
    ELSE LET shorter == VertexLists(n - 1)
         IN  shorter \cup { Append(l, v) : l \in { s \in shorter : Len(s) = n - 1 },
                                          v \in GfxPoints }

GfxInit ==
    /\ input = parse("GFX", << << >> >>, PolA)
    /\ interpreter = NULL
    /\ renderer = NewRenderer
    /\ framebuffer = << >>
    /\ isPlaying = FALSE
    /\ animationId = FALSE
    /\ execLog = << >>
    /\ threw = FALSE
    /\ lastOp = [name |-> "new", arg |-> 0]
    /\ call \in { [g |-> setClippingRect(g, c[1], c[2], c[3], c[4]), color |-> TargetColor] :
                    g \in GfxStarts, c \in GfxClips }
    /\ result = NoCall

GfxUnchanged ==
    UNCHANGED << input, interpreter, renderer, framebuffer, isPlaying, animationId,
                 execLog, threw, lastOp, call >>

GfxDrawPoint ==
    /\ result = NoCall
    /\ \E v \in GfxPoints :
          result' = [op |-> "drawPoint", hasAlpha |-> FALSE, vertices |-> << v >>,
                     g |-> drawPoint(call.g, call.color, v.x, v.y)]
    /\ GfxUnchanged

GfxDrawLine ==
    /\ result = NoCall
    /\ \E v1 \in GfxPoints, v2 \in GfxPoints :
          result' = [op |-> "drawLine", hasAlpha |-> FALSE, vertices |-> << v1, v2 >>,
                     g |-> drawLine(call.g, call.color, v1.x, v1.y, v2.x, v2.y)]
    /\ GfxUnchanged

GfxDrawPolygon ==
    /\ result = NoCall
    /\ \E vertices \in VertexLists(MaxVertices), hasAlpha \in BOOLEAN :
          result' = [op |-> "drawPolygon", hasAlpha |-> hasAlpha, vertices |-> vertices,
                     g |-> drawPolygon(call.g, call.color, hasAlpha, vertices)]
    /\ GfxUnchanged

\* vertices holds the centre and the radii (as a point)
GfxDrawEllipse ==
    /\ result = NoCall
    /\ \E c \in GfxPoints, rx \in 0 .. MaxRadius, ry \in 0 .. MaxRadius, hasAlpha \in BOOLEAN :
          result' = [op |-> "drawEllipse", hasAlpha |-> hasAlpha,
                     vertices |-> << c, [x |-> rx, y |-> ry] >>,
                     g |-> drawEllipse(call.g, call.color, hasAlpha, c.x, c.y, rx, ry)]
    /\ GfxUnchanged

GfxNext == GfxDrawPoint \/ GfxDrawLine \/ GfxDrawPolygon \/ GfxDrawEllipse

SpecGfx == GfxInit /\ [][GfxNext]_vars

----------------------------------------------------------------------------
(* Reference semantics used by the properties *)

\* the frames of a script, subscene after subscene
RECURSIVE AllFramesFrom(_, _)
AllFramesFrom(cutscene, s) ==
    IF s > Len(cutscene.script.subscenes) THEN << >>
    ELSE cutscene.script.subscenes[s].frames \o AllFramesFrom(cutscene, s + 1)

AllFrames(cutscene) == AllFramesFrom(cutscene, 1)

\* the commands of global frame k (none when the script has no such frame)
FrameCommands(cutscene, k) ==
    IF k + 1 \in DOMAIN AllFrames(cutscene) THEN AllFrames(cutscene)[k + 1].commands ELSE << >>

\* the commands of frames 0..k, in stream order
RECURSIVE CommandsThrough(_, _)
CommandsThrough(cutscene, k) ==
    IF k < 0 THEN << >>
    ELSE CommandsThrough(cutscene, k - 1) \o FrameCommands(cutscene, k)

\* a fresh VM (black palette, clear_screen = 1, empty lists) on the shapes of
\* the cutscene
FreshMachine(cutscene) == NewInterpreter(cutscene, loadShapes(NewRenderer, cutscene.shapes))

\* the fresh VM after the commands of frames 0..k
Replay(cutscene, k) ==
    executeCommands(FreshMachine(cutscene), cutscene, CommandsThrough(cutscene, k), 1)

\* the VM state a machine holds: palette buffer, clear flag, both lists
VmState(m) ==
    [ paletteBuffer |-> m.state.paletteBuffer, clearScreen |-> m.state.clearScreen,
      palette |-> m.renderer.palette, rendererClearScreen |-> m.renderer.clearScreen,
      drawnShapes |-> m.renderer.drawnShapes, auxShapes |-> m.renderer.auxShapes ]

RECURSIVE NextFrameTimes(_, _, _)
NextFrameTimes(m, cutscene, n) ==
    IF n = 0 THEN m ELSE NextFrameTimes(nextFrame(m, cutscene), cutscene, n - 1)

Loaded == interpreter # NULL

----------------------------------------------------------------------------
(* C1 *)

\* C1: whatever navigation calls were made on a loaded cutscene, the palette
\* buffer, clear_screen, draw list and auxiliary list are those of a fresh VM
\* that executed the commands of frames 0..current_frame in order, and the
\* framebuffer is the rendering of that state; and for every frame i,
\* reset(); goToFrame(i) and reset(); nextFrame() x i give the same state and
\* the same framebuffer.
C1_Determinism ==
    Loaded =>
        /\ VmState(Machine) = VmState(Replay(input, interpreter.currentFrame))
        /\ framebuffer = render(Replay(input, interpreter.currentFrame).renderer)
        /\ \A i \in 0 .. interpreter.totalFrames - 1 :
              LET byGoTo == goToFrame(reset(Machine, input), input, i)
                  byNext == NextFrameTimes(reset(Machine, input), input, i)
              IN  /\ VmState(byGoTo) = VmState(byNext)
                  /\ byGoTo.state.currentFrame = byNext.state.currentFrame
                  /\ render(byGoTo.renderer) = render(byNext.renderer)

\* a frame past the first was reached by a rebuild and holds shapes and colours
C1_Witness ==
    /\ Loaded
    /\ lastOp.name = "goToFrame"
    /\ interpreter.currentFrame >= 2
    /\ Len(framebuffer) > 0
    /\ interpreter.paletteBuffer # createEmptyPalette
    /\ interpreter.clearScreen = 0

----------------------------------------------------------------------------
(* C2 *)

\* C2: once a cutscene is installed, current_frame < total_frames in every
\* observable state, whatever Cutscene the parsers returned.
C2_FrameInRange == Loaded => interpreter.currentFrame < interpreter.totalFrames

----------------------------------------------------------------------------
(* C3 *)

\* the half a setPalette with buffer number b writes: 1 (slots 16..31) for an
\* even b, 0 (slots 0..15) for an odd b; a missing b counts as 0
WrittenHalf(cmd) == IF Opt(cmd, "bufferNum", 0) % 2 = 0 THEN 1 ELSE 0

IsEffectiveSetPalette(cmd) ==
    /\ cmd.op = "setPalette"
    /\ Defined(cmd, "paletteNum")
    /\ cmd.paletteNum < Len(input.palettes)

UpperHalf(buffer) == [i \in 1..16 |-> buffer[16 + i]]
LowerHalf(buffer) == [i \in 1..16 |-> buffer[i]]

\* C3: in every reachable state and for every setPalette command,
\* setPalette{P, B} with P < number of palettes overwrites exactly the 16
\* slots of half (B xor 1) & 1 with cutscene.palettes[P] and leaves the other
\* half, clear_screen and both lists unchanged; setPalette{1,1} executed when
\* the upper half holds palette 0 leaves palette 0 above and palette 1 below.
C3_PaletteSlot ==
    \A cmd \in SetPaletteCommands :
        IsEffectiveSetPalette(cmd) =>
            LET after == executeCommand(Machine, input, cmd)
                d == WrittenHalf(cmd)
                src == input.palettes[cmd.paletteNum + 1]
            IN  /\ DOMAIN after.state.paletteBuffer = 1..32
                /\ \A i \in 0..31 :
                      after.state.paletteBuffer[i + 1] =
                         IF i >= d * 16 /\ i <= d * 16 + 15
                         THEN src[i - d * 16 + 1]
                         ELSE interpreter.paletteBuffer[i + 1]
                /\ after.renderer.palette = after.state.paletteBuffer
                /\ after.state.clearScreen = interpreter.clearScreen
                /\ after.renderer.clearScreen = renderer.clearScreen
                /\ after.renderer.drawnShapes = renderer.drawnShapes
                /\ after.renderer.auxShapes = renderer.auxShapes
                /\ (/\ cmd = SetPaletteCmd(1, 1)
                    /\ UpperHalf(interpreter.paletteBuffer) = input.palettes[1])
                   => /\ UpperHalf(after.state.paletteBuffer) = input.palettes[1]
                      /\ LowerHalf(after.state.paletteBuffer) = input.palettes[2]

\* palette 0 sits in the upper half and palette 1 in the lower half
C3_Witness ==
    /\ Len(input.palettes) = 2
    /\ UpperHalf(interpreter.paletteBuffer) = input.palettes[1]
    /\ LowerHalf(interpreter.paletteBuffer) = input.palettes[2]
    /\ Len(renderer.drawnShapes) > 0

----------------------------------------------------------------------------
(* C4 *)

\* the interpreter state after `commands` are executed on top of the current one
OnTop(commands) == executeCommands(Machine, input, commands, 1)

InRange(frame, total) == frame >= 0 /\ frame < total

\* C4: nextFrame with current_frame + 1 < total_frames executes the commands
\* of frame current_frame + 1 once, in order, on top of the current state and
\* adds one to current_frame; at the last frame it changes nothing.  prevFrame
\* at frame 0 changes nothing; otherwise it subtracts one and rebuilds from a
\* reset.  Stepping never takes current_frame out of [0, total_frames).
C4_Stepping ==
    [][ Loaded =>
          /\ lastOp'.name = "nextFrame" =>
                IF interpreter.currentFrame + 1 < interpreter.totalFrames
                THEN LET commands == FrameCommands(input, interpreter.currentFrame + 1)
                     IN  /\ interpreter'.currentFrame = interpreter.currentFrame + 1
                         /\ execLog' = execLog \o commands
                         /\ VmState(Machine)' = VmState(OnTop(commands))
                ELSE UNCHANGED << interpreter, renderer, execLog >>
          /\ lastOp'.name = "prevFrame" =>
                IF interpreter.currentFrame = 0
                THEN UNCHANGED << interpreter, renderer, execLog >>
                ELSE /\ interpreter'.currentFrame = interpreter.currentFrame - 1
                     /\ execLog' = CommandsThrough(input, interpreter.currentFrame - 1)
                     /\ VmState(Machine)' =
                           VmState(Replay(input, interpreter.currentFrame - 1))
          /\ (/\ lastOp'.name \in {"nextFrame", "prevFrame"}
              /\ InRange(interpreter.currentFrame, interpreter.totalFrames))
             => InRange(interpreter'.currentFrame, interpreter'.totalFrames) ]_vars

\* nextFrame has stepped onto the last of at least three frames
C4_Witness ==
    /\ Loaded
    /\ lastOp.name = "nextFrame"
    /\ interpreter.totalFrames >= 3
    /\ interpreter.currentFrame = interpreter.totalFrames - 1
    /\ Len(execLog) > 0

----------------------------------------------------------------------------
(* C5 *)

Clamp(frame, total) == IF frame < 0 THEN 0 ELSE IF frame >= total THEN total - 1 ELSE frame

\* C5: goToFrame(i) with i outside [0, total_frames) is clamped: afterwards
\* current_frame is the nearest valid frame index.
C5_Clamped ==
    (/\ Loaded
     /\ lastOp.name = "goToFrame"
     /\ interpreter.totalFrames > 0
     /\ ~InRange(lastOp.arg, interpreter.totalFrames))
    => interpreter.currentFrame = Clamp(lastOp.arg, interpreter.totalFrames)

\* C5 (amended): goToFrame(i) with i outside [0, total_frames) is ignored:
\* current_frame, the palette buffer, clear_screen and both lists stay as they
\* were, which is still the replay of frames 0..current_frame.
C5_Ignored ==
    [][ (/\ Loaded
         /\ lastOp'.name = "goToFrame"
         /\ ~InRange(lastOp'.arg, interpreter.totalFrames))
        => /\ UNCHANGED << interpreter, renderer, execLog >>
           /\ VmState(Machine)' = VmState(Replay(input, interpreter.currentFrame))
           /\ framebuffer' = render(renderer) ]_vars

\* goToFrame was called with an index past the last frame while the VM stood
\* at a frame other than the last
C5_Witness ==
    /\ Loaded
    /\ lastOp.name = "goToFrame"
    /\ lastOp.arg >= interpreter.totalFrames
    /\ interpreter.totalFrames >= 2
    /\ interpreter.currentFrame < interpreter.totalFrames - 1

----------------------------------------------------------------------------
(* C6 *)

\* C6: every entry of the draw list and of the auxiliary list has a shape id
\* of the shape set loaded from the cutscene, draw commands naming an absent
\* shape id included.
C6_ShapeIdsResolve ==
    /\ \A i \in DOMAIN renderer.drawnShapes :
          renderer.drawnShapes[i].shapeId \in LoadedShapeIds
    /\ \A i \in DOMAIN renderer.auxShapes :
          renderer.auxShapes[i].shapeId \in LoadedShapeIds

\* a draw of an absent shape id was executed on non-empty lists
C6_Witness ==
    /\ lastOp = [name |-> "executeCommand", arg |-> 1]
    /\ Len(renderer.drawnShapes) >= 2
    /\ Len(renderer.auxShapes) >= 1

----------------------------------------------------------------------------
(* C7 *)

IsMultipleOf17(v) == v \in { 17 * n : n \in 0..15 }

\* C7: the palette buffer has exactly 32 entries and every channel of every
\* entry is a multiple of 17 in 0..255.
C7_PaletteBuffer ==
    /\ DOMAIN interpreter.paletteBuffer = 1..32
    /\ \A i \in 1..32 :
          LET c == interpreter.paletteBuffer[i]
          IN  IsMultipleOf17(c.r) /\ IsMultipleOf17(c.g) /\ IsMultipleOf17(c.b)

\* both halves hold colours copied from parsed palettes
C7_Witness ==
    /\ interpreter.paletteBuffer[1] # Black
    /\ interpreter.paletteBuffer[32] # Black
    /\ interpreter.paletteBuffer[1] # interpreter.paletteBuffer[17]

----------------------------------------------------------------------------
(* C8 *)

----------------------------------------------------------------------------
(* C9 *)

\* the paint operations of the framebuffer that precede those of draw-list
\* entry n
RECURSIVE PaintStart(_, _)
PaintStart(r, n) ==
    IF n <= 1 THEN 0
    ELSE PaintStart(r, n - 1)
         + (IF r.drawnShapes[n - 1].shapeId \in ShapeIds(r)
            THEN Len(ShapeOf(r, r.drawnShapes[n - 1].shapeId).primitives)
            ELSE 0)

\* the colour primitive k of draw-list entry n was painted with
PaintedColor(n, k) == framebuffer[PaintStart(renderer, n) + k].color

\* the palette slot primitive k of draw-list entry n reads
SlotOf(n, k) ==
    LET drawn == renderer.drawnShapes[n]
        c5 == ShapeOf(renderer, drawn.shapeId).primitives[k].color % 32
    IN  (c5 + (IF drawn.clearScreenAtDraw = 0 THEN 16 ELSE 0)) % 32

\* stream order: the log of executed commands is the commands of frames
\* 0..current_frame, and global frame k is the k-th frame of the subscenes
\* concatenated in script order
StreamOrder ==
    /\ execLog = CommandsThrough(input, interpreter.currentFrame)
    /\ Len(AllFrames(input)) = interpreter.totalFrames
    /\ \A k \in 0 .. interpreter.totalFrames - 1 :
          getFrameAt(input, k).frame = AllFrames(input)[k + 1]

\* the shapes drawn by commands after log position i are painted with the
\* colours of the palette written at position i, wherever they read the
\* written half
SeenByLaterDraws(i) ==
    LET write == execLog[i]
    IN  \A n \in DOMAIN renderer.drawnShapes :
           renderer.drawnShapes[n].at > i =>
              \A k \in DOMAIN ShapeOf(renderer, renderer.drawnShapes[n].shapeId).primitives :
                 SlotOf(n, k) \div 16 = WrittenHalf(write) =>
                    PaintedColor(n, k) =
                       input.palettes[write.paletteNum + 1][(SlotOf(n, k) % 16) + 1]

Overwritten(i) ==
    \E j \in DOMAIN execLog :
        /\ j > i
        /\ IsEffectiveSetPalette(execLog[j])
        /\ WrittenHalf(execLog[j]) = WrittenHalf(execLog[i])

\* C9: commands are executed in stream order, and a palette write is observed
\* by every draw command executed after it: those shapes are rendered with
\* the written colours.
C9_WriteSeenByEveryLaterDraw ==
    Loaded =>
        /\ StreamOrder
        /\ \A i \in DOMAIN execLog :
              IsEffectiveSetPalette(execLog[i]) => SeenByLaterDraws(i)

\* C9 (amended): commands are executed in stream order, and a palette write
\* is observed by every draw command executed after it - those shapes are
\* rendered with the written colours - unless a later setPalette executed
\* before the frame is rendered overwrites the same half.
C9_WriteSeenUnlessOverwritten ==
    Loaded =>
        /\ StreamOrder
        /\ \A i \in DOMAIN execLog :
              (IsEffectiveSetPalette(execLog[i]) /\ ~Overwritten(i)) => SeenByLaterDraws(i)

\* in the second subscene, a shape drawn after a palette write that is not
\* overwritten is painted in a colour of the written palette
C9_Witness ==
    /\ Loaded
    /\ Len(input.script.subscenes) = 2
    /\ interpreter.currentFrame >= Len(input.script.subscenes[1].frames)
    /\ interpreter.currentFrame >= 1
    /\ \E i \in DOMAIN execLog :
          /\ IsEffectiveSetPalette(execLog[i])
          /\ ~Overwritten(i)
          /\ \E n \in DOMAIN renderer.drawnShapes :
                /\ renderer.drawnShapes[n].at > i
                /\ SlotOf(n, 1) \div 16 = WrittenHalf(execLog[i])
                /\ PaintedColor(n, 1) # Black

----------------------------------------------------------------------------
(* C10 *)

\* C10: executing a command never raises an error; a draw naming an absent
\* shape id, a setPalette whose pal_num is past the last palette and a
\* command with an unrecognised op leave the palette buffer, clear_screen and
\* both lists as they were.
C10_NeverThrows ==
    /\ ~threw
    /\ \A cmd \in ExecCommands :
          LET after == executeCommand(Machine, input, cmd)
          IN  /\ ~after.threw
              /\ SkipClass(cmd) # 0 =>
                    /\ VmState(after) = VmState(Machine)
                    /\ after.state = interpreter
                    /\ after.renderer = renderer

\* a setPalette naming a palette past the last one was executed on a VM that
\* holds colours and shapes
C10_Witness ==
    /\ lastOp = [name |-> "executeCommand", arg |-> 2]
    /\ ~threw
    /\ interpreter.paletteBuffer # createEmptyPalette
    /\ Len(renderer.drawnShapes) > 0

----------------------------------------------------------------------------
(* C11 *)

\* the markCurPos commands of a command list
RECURSIVE CountMarks(_, _)
CountMarks(commands, i) ==
    IF i > Len(commands) THEN 0
    ELSE (IF commands[i].op = "markCurPos" THEN 1 ELSE 0) + CountMarks(commands, i + 1)

\* at least one command follows the last markCurPos (with no markCurPos, the
\* whole list is the tail)
HasTail(commands) ==
    /\ Len(commands) > 0
    /\ commands[Len(commands)].op # "markCurPos"

\* at least one command precedes the first markCurPos
HasHead(commands) ==
    /\ Len(commands) > 0
    /\ commands[1].op # "markCurPos"

Parsed == result # NoCall /\ result.ok

\* C11: for every parsed subscene, the number of frames is the number of
\* markCurPos commands of its stream, plus one exactly when at least one
\* command follows the last markCurPos.
C11_FramesByTrailingTail ==
    Parsed =>
        \A s \in DOMAIN result.streams :
            Len(result.script.subscenes[s].frames) =
                CountMarks(result.streams[s], 1)
                + (IF HasTail(result.streams[s]) THEN 1 ELSE 0)

\* C11 (amended): for every parsed subscene, the number of frames is the
\* number of markCurPos commands of its stream, plus one exactly when the
\* stream starts with a command that is not a markCurPos: every markCurPos
\* opens a frame, and the commands before the first one form a frame of their
\* own.
C11_FramesByLeadingHead ==
    Parsed =>
        \A s \in DOMAIN result.streams :
            LET frames == result.script.subscenes[s].frames
            IN  /\ Len(frames) = CountMarks(result.streams[s], 1)
                                 + (IF HasHead(result.streams[s]) THEN 1 ELSE 0)
                /\ \A k \in DOMAIN frames :
                      /\ Len(frames[k].commands) > 0
                      /\ k > 1 => frames[k].commands[1].op = "markCurPos"

\* a stream that opens with a markCurPos, holds a second one and ends in a
\* tail: two frames
C11_Witness ==
    /\ Parsed
    /\ \E s \in DOMAIN result.streams :
          /\ Len(result.streams[s]) = 3
          /\ ~HasHead(result.streams[s])
          /\ HasTail(result.streams[s])
          /\ CountMarks(result.streams[s], 1) = 2
          /\ Len(result.script.subscenes[s].frames) = 2

----------------------------------------------------------------------------
(* C12 *)

\* C12: a CMD stream holding a command byte whose opcode is above 14 is
\* rejected with an error; no Script built from the commands before the bad
\* byte is returned.
C12_BadOpcodeRejected ==
    result # NoCall =>
        (result.ok => \A s \in DOMAIN result.warned : ~result.warned[s])

----------------------------------------------------------------------------
(* C13 *)

\* C13: when a shape or vertex record of a POL file cannot be decoded,
\* loading fails and no Cutscene is produced; the parser never returns a
\* Cutscene holding only the shapes decoded before the failure.
C13_NoPartialCutscene ==
    (result # NoCall /\ result.ok) =>
        /\ ~result.warned
        /\ Len(result.cutscene.shapes) = result.shapeCount

----------------------------------------------------------------------------
(* C20 *)

\* the sum of delta pairs lo .. hi
RECURSIVE DeltaRange(_, _, _)
DeltaRange(deltas, lo, hi) ==
    IF lo > hi THEN << 0, 0 >>
    ELSE IF lo = hi THEN deltas[lo]
    ELSE LET mid == (lo + hi) \div 2
             left == DeltaRange(deltas, lo, mid)
             right == DeltaRange(deltas, mid + 1, hi)
         IN  << left[1] + right[1], left[2] + right[2] >>

\* the sum of the first k delta pairs
DeltaSum(deltas, k) == DeltaRange(deltas, 1, k)

\* what the vertex record decodes to
DecodesTo(rec, primitive) ==
    IF rec.n = 0
    THEN /\ primitive.type = "point"
         /\ primitive.x = rec.x /\ primitive.y = rec.y
    ELSE IF rec.n >= 128
    THEN /\ primitive.type = "ellipse"
         /\ primitive.cx = rec.x /\ primitive.cy = rec.y
         /\ primitive.rx = rec.rx /\ primitive.ry = rec.ry
    ELSE /\ primitive.type = "polygon"
         /\ Len(primitive.vertices) = rec.n + 1
         /\ \A k \in 0 .. rec.n :
               primitive.vertices[k + 1] =
                  << rec.x + DeltaSum(rec.deltas, k)[1], rec.y + DeltaSum(rec.deltas, k)[2] >>

\* C20: a vertex record with count byte n decodes to a Point when n = 0, to
\* an Ellipse when bit 0x80 of n is set, and for 1 <= n <= 127 to a Polygon of
\* exactly n + 1 vertices, the k-th being the absolute first point plus the
\* sum of the first k signed 8-bit delta pairs.
C20_VertexRecords ==
    (result # NoCall /\ call.cut = 0) =>
        /\ result.ok
        /\ Len(result.cutscene.shapes) = Len(call.records)
        /\ \A i \in DOMAIN call.records :
              /\ Len(result.cutscene.shapes[i].primitives) = 1
              /\ DecodesTo(call.records[i], result.cutscene.shapes[i].primitives[1])
              /\ result.cutscene.shapes[i].primitives[1].color = ShapeColor(i)

\* a file holding a polygon of count byte 127 and one of count byte 3 with
\* negative deltas has been decoded
C20_Witness ==
    /\ result # NoCall
    /\ call.cut = 0
    /\ result.ok
    /\ Len(call.records) = 2
    /\ call.records[1].n = 127
    /\ call.records[2].n = 3
    /\ Len(result.cutscene.shapes[1].primitives[1].vertices) = 128
    /\ result.cutscene.shapes[2].primitives[1].vertices[3] = << -129, 426 >>

----------------------------------------------------------------------------
(* C14 *)

LoadSettled == \A f \in Files : result.pc[f] = "done"

BothFetched == \A f \in Files : call.outcome[f] = "ok"

BothParse == parseBuffers(call.cmd, call.pol, "LOAD").ok

----------------------------------------------------------------------------
(* C15: switching the installed cutscene *)

\* the position of the first event of that name in a call's events, 0 if none
EventIndex(events, name) ==
    IF \E j \in DOMAIN events : events[j].ev = name
    THEN CHOOSE j \in DOMAIN events :
            events[j].ev = name /\ \A k \in 1 .. j - 1 : events[k].ev # name
    ELSE 0

EventCount(events, name) == Cardinality({ j \in DOMAIN events : events[j].ev = name })

\* C15: loadCutscene while another cutscene is installed stops playback, calls
\* stopAndReset on the MidiPlayer (stop, panic and resetState on the synth when
\* there is one) and empties the old renderer before the first command of the
\* new cutscene is executed; when it returns the current frame is 0, frame 0
\* is on the framebuffer and the draw list holds what frame 0 of the new
\* cutscene draws on an empty renderer.
C15_SwitchCutscene ==
    [][ (lastOp'.name = "loadCutscene" /\ interpreter # NULL) =>
        LET events == result'.events
            first == EventIndex(events, "renderCurrentFrame")
            reset0 == EventIndex(events, "stopAndReset")
            alone == Replay(input', 0)
        IN  /\ ~isPlaying' /\ ~animationId'
            /\ first > 0
            /\ EventIndex(events, "stop") \in 1 .. first - 1
            /\ EventIndex(events, "dispose") \in 1 .. first - 1
            /\ reset0 \in 1 .. first - 1
            /\ call.midi.synth =>
                  /\ events[reset0 + 1].ev = "synth.stop"
                  /\ events[reset0 + 2].ev = "synth.panic"
                  /\ events[reset0 + 3].ev = "synth.resetState"
                  /\ reset0 + 3 < first
            /\ ~call'.midi.loaded
            /\ interpreter'.currentFrame = 0
            /\ execLog' = alone.log
            /\ renderer'.drawnShapes = alone.renderer.drawnShapes
            /\ renderer'.auxShapes = alone.renderer.auxShapes
            /\ framebuffer' = render(alone.renderer) ]_vars

\* a cutscene with music replaces one that was shown with its second frame drawn
C15_Witness ==
    /\ lastOp.name = "loadCutscene"
    /\ input.name = "DEBUT"
    /\ EventIndex(result.events, "dispose") > 0
    /\ EventIndex(result.events, "synth.panic") > 0
    /\ interpreter.currentFrame = 0
    /\ Len(renderer.drawnShapes) = 1
    /\ BagCardinality(call.tasks) = 2

----------------------------------------------------------------------------
(* C16: music requested before the synth is initialised *)

\* C16: when loadCutscene asks for the music of a cutscene while the synth is
\* not initialised, nothing is fetched, no load is started and the PRF name
\* is kept as pending; when the initialisation started by play() or
\* ensureAudioInitialized() succeeds, the load of exactly the pending PRF
\* starts (one fetch, of that name) and the pending name is cleared.
C16_PendingMusic ==
    [][ /\ (lastOp'.name = "loadCutscene" /\ getPrfName(input'.name) # ""
                                          /\ ~call.midi.initialized) =>
              /\ EventCount(result'.events, "fetch") = 0
              /\ call'.tasks = call.tasks
              /\ call'.midi.pendingLoad = getPrfName(input'.name)
              /\ ~call'.midi.loaded
        /\ (lastOp'.name = "initSucceeded" /\ call.midi.pendingLoad # "") =>
              /\ EventCount(result'.events, "fetch") = 1
              /\ result'.events[EventIndex(result'.events, "fetch")].s = call.midi.pendingLoad
              /\ \E t \in Tasks : /\ t.kind = "prf" /\ t.prf = call.midi.pendingLoad
                                  /\ CopiesIn(t, call'.tasks) = CopiesIn(t, call.tasks) + 1
              /\ call'.midi.pendingLoad = "" ]_vars

\* the synth has just been initialised from play() and the music kept pending
\* for DEBUT is being fetched
C16_Witness ==
    /\ lastOp.name = "initSucceeded"
    /\ isPlaying
    /\ input.name = "DEBUT"
    /\ call.midi.pendingLoad = ""
    /\ call.midi.currentPrfName = "REVEIL3"
    /\ EventCount(result.events, "fetch") = 1
    /\ BagIn([kind |-> "prf", prf |-> "REVEIL3", caller |-> "play"], call.tasks)

----------------------------------------------------------------------------
(* C17: a music load that fails *)

\* goToFrame reaches every frame of the installed cutscene, and nextFrame
\* the frame after the current one
EveryFrameReachable ==
    interpreter # NULL =>
        /\ \A i \in 0 .. interpreter.totalFrames - 1 :
              LET m == goToFrame(Machine, input, i)
              IN  ~m.threw /\ VmState(m) = VmState(Replay(input, i))
        /\ interpreter.currentFrame < interpreter.totalFrames - 1 =>
              LET m == nextFrame(Machine, input)
              IN  ~m.threw /\ m.state.currentFrame = interpreter.currentFrame + 1

\* C17: when the PRF or MIDI fetch of a music load fails, the failure is
\* handled inside the MidiPlayer: the interpreter, the renderer and the
\* framebuffer are unchanged, loaded is false, the MIDI-state callback
\* receives a state with loaded = false and a non-null error, synth.play is
\* not called, and every frame can still be reached.
C17_MusicFailure ==
    [][ lastOp'.name = "loadFailed" =>
          /\ UNCHANGED << input, interpreter, renderer, framebuffer, execLog, threw,
                          isPlaying, animationId >>
          /\ ~call'.midi.loaded
          /\ \E j \in DOMAIN result'.events :
                /\ result'.events[j].ev = "midiState"
                /\ result'.events[j].a = 0
                /\ result'.events[j].s # ""
          /\ EventCount(result'.events, "synth.play") = 0
          /\ EveryFrameReachable ]_vars

----------------------------------------------------------------------------
(* C19: the frame-change callback *)

\* the navigation call would execute or rebuild a frame from the current state
Moves(op) ==
    CASE op.name = "nextFrame" -> interpreter.currentFrame < interpreter.totalFrames - 1
      [] op.name = "prevFrame" -> interpreter.currentFrame > 0
      [] op.name = "goToFrame" -> op.arg >= 0 /\ op.arg < interpreter.totalFrames
      [] op.name = "reset" -> interpreter.totalFrames > 0

\* the frame the navigation call moves to
Target(op) ==
    CASE op.name = "nextFrame" -> interpreter.currentFrame + 1
      [] op.name = "prevFrame" -> interpreter.currentFrame - 1
      [] op.name = "goToFrame" -> op.arg
      [] op.name = "reset" -> 0

\* C19: a nextFrame, prevFrame, goToFrame or reset that executes or rebuilds a
\* frame calls the registered frame-change callback exactly once, after the
\* last command of the step, with the new current frame and the total number
\* of frames; a call that does nothing (nextFrame at the last frame, prevFrame
\* at frame 0, goToFrame out of range) does not call it.
C19_FrameChangeCallback ==
    [][ (lastOp'.name \in {"nextFrame", "prevFrame", "goToFrame", "reset"}
            /\ interpreter # NULL) =>
        LET events == result'.events
            j == EventIndex(events, "frameChange")
        IN  IF Moves(lastOp')
            THEN /\ EventCount(events, "frameChange") = 1
                 /\ interpreter'.currentFrame = Target(lastOp')
                 /\ events[j].a = interpreter'.currentFrame
                 /\ events[j].b = interpreter'.totalFrames
                 /\ events[j].c = Len(execLog')
            ELSE /\ EventCount(events, "frameChange") = 0
                 /\ UNCHANGED << interpreter, renderer, execLog >> ]_vars

\* prevFrame from the last frame of DEBUT has rebuilt frames 0 and 1 and
\* reported frame 1 of 3 after their six commands
C19_Witness ==
    /\ lastOp.name = "prevFrame"
    /\ input.name = "DEBUT"
    /\ interpreter # NULL
    /\ interpreter.currentFrame = 1
    /\ EventCount(result.events, "frameChange") = 1
    /\ LET e == result.events[EventIndex(result.events, "frameChange")]
       IN  e.a = 1 /\ e.b = 3 /\ e.c = Len(execLog) /\ e.c = 6

----------------------------------------------------------------------------
(* C18: a hot-swapped instrument that fails to load *)

\* the call fails: the channel is outside 0..15, there is no synth, or no
\* candidate INS file is fetched with exactly 80 bytes and a mode byte of 0 or 1
InsFails ==
    \/ call.channel < 0 \/ call.channel > 15
    \/ ~call.synth
    \/ \A i \in DOMAIN call.responses :
          \/ call.responses[i].status # "ok"
          \/ call.responses[i].byteLength # 80
          \/ call.responses[i].firstByte > 1

\* C18: a setChannelInstrument call that fails (channel outside 0..15, no
\* synth, INS file missing, not exactly 80 bytes, or mode byte above 1)
\* returns false, never reaches synth.setInstrument and leaves the instrument
\* recorded for every channel as it was.
C18_FailedSwapKeepsInstrument ==
    InsFails =>
        /\ result.stage \in {"idle", "loadInsFile", "done"}
        /\ result.injected = << >>
        /\ result.channelInstruments = NewChannelInstruments
        /\ result.stage = "done" => result.returned = "false"

\* "bassa" on channel 15: BASSA.INS has 81 bytes and BASS.INS a mode byte of
\* 2, and the call has returned
C18_Witness ==
    /\ result.stage = "done"
    /\ result.returned = "false"
    /\ call.channel = 15
    /\ call.synth
    /\ Len(call.responses) = 2
    /\ call.responses[1].byteLength = 81
    /\ call.responses[2].byteLength = 80 /\ call.responses[2].firstByte = 2
    /\ lastOp.name = "loadInsFile"

----------------------------------------------------------------------------
(* C28: markCurPos *)

\* a DrawnShape made while clearScreen was not 0: a background shape
Background(drawn) == drawn.clearScreenAtDraw # 0

----------------------------------------------------------------------------
(* C29: the auxiliary list *)

\* C29: the auxiliary list is the subsequence of the draw list made of the
\* entries drawn while clear_screen was not 0.
C29_AuxIsBackground ==
    renderer.auxShapes = SelectSeq(renderer.drawnShapes, Background)

\* a shape drawn under clear mode 2 is on both lists, a shape drawn after
\* refreshScreen(0) only on the draw list
C29_Witness ==
    /\ lastOp = [name |-> "executeCommand", arg |-> 0]
    /\ Len(renderer.drawnShapes) = 2
    /\ Len(renderer.auxShapes) = 1
    /\ renderer.auxShapes[1].clearScreenAtDraw = 2
    /\ renderer.drawnShapes[2].clearScreenAtDraw = 0

----------------------------------------------------------------------------
(* C30: refreshScreen *)

\* C30: the VM state and the renderer hold the same clear_screen;
\* refreshScreen(m) sets both to m, empties both lists when m # 0 and leaves
\* both lists unchanged when m = 0.
C30_RefreshScreen ==
    /\ interpreter.clearScreen = renderer.clearScreen
    /\ \A mode \in ClearModes :
          LET after == executeCommand(Machine, input, RefreshScreen(mode))
          IN  /\ after.state.clearScreen = mode
              /\ after.renderer.clearScreen = mode
              /\ mode # 0 => /\ after.renderer.drawnShapes = << >>
                             /\ after.renderer.auxShapes = << >>
              /\ mode = 0 => /\ after.renderer.drawnShapes = renderer.drawnShapes
                             /\ after.renderer.auxShapes = renderer.auxShapes

\* both hold mode 2 and both lists hold shapes drawn since
C30_Witness ==
    /\ interpreter.clearScreen = 2
    /\ renderer.clearScreen = 2
    /\ Len(renderer.drawnShapes) = 2
    /\ Len(renderer.auxShapes) = 2

----------------------------------------------------------------------------
(* C25: INS files that are rejected *)

\* the file is one the format excludes: too short, or a mode byte other than 0 and 1
BadInsFile ==
    \/ Len(call.file) < 80
    \/ call.file[1] \notin {0, 1}

\* C25 as stated: parseIns returns an error, not InsData, for every file
\* shorter than 80 bytes and for every file whose mode byte is neither 0 nor 1.
C25_ParserRejects ==
    (result.stage = "parseIns" /\ BadInsFile) => ~result.ins.ok

\* C25: parseIns throws for every buffer shorter than 80 bytes and takes any
\* mode byte; loadInsFile hands parseIns only bodies of exactly 80 bytes whose
\* mode byte is 0 or 1, and gives null for every other body.
C25_LoaderRejects ==
    /\ result.stage = "parseIns" =>
          IF Len(call.file) < 80
          THEN ~result.ins.ok
          ELSE result.ins.ok /\ result.ins.mode = call.file[1]
    /\ result.stage = "loadInsFile" =>
          IF Len(call.file) # 80 \/ call.file[1] > 1
          THEN result.ins = NULL
          ELSE result.ins # NULL /\ result.ins.ok /\ result.ins.mode \in {0, 1}

\* loadInsFile has given null for a body of 80 bytes with mode byte 2
C25_Witness ==
    /\ result.stage = "loadInsFile"
    /\ Len(call.file) = 80
    /\ call.file[1] = 2
    /\ result.ins = NULL

----------------------------------------------------------------------------
(* C26: the widths of the instrument fields *)

\* the numeric fields of an operator with the number of bits of each
WithinWidths(op) ==
    /\ op.keyScaling \in 0 .. 3
    /\ op.frequencyMultiplier \in 0 .. 15
    /\ op.feedbackStrength \in 0 .. 7
    /\ op.attackRate \in 0 .. 15
    /\ op.decayRate \in 0 .. 15
    /\ op.sustainLevel \in 0 .. 15
    /\ op.releaseRate \in 0 .. 15
    /\ op.outputLevel \in 0 .. 63

\* C26 as stated: in the InsData of every accepted file the wave selects are
\* in 0..7 and every operator field is within its documented width.
C26_InsDataWithinWidths ==
    (result.stage \in {"parseIns", "loadInsFile"} /\ result.ins # NULL /\ result.ins.ok) =>
        /\ result.ins.modulatorWaveSelect \in 0 .. 7
        /\ result.ins.carrierWaveSelect \in 0 .. 7
        /\ WithinWidths(result.ins.modulator)
        /\ WithinWidths(result.ins.carrier)

\* the OPL3 operator holds the words of the file reduced to their widths
MaskedFrom(op, words, waveByte) ==
    /\ op.keyScaleLevel = words[1] % 4
    /\ op.freqMult = words[2] % 16
    /\ op.attack = words[4] % 16
    /\ op.sustain = words[5] % 16
    /\ op.decay = words[7] % 16
    /\ op.release = words[8] % 16
    /\ op.totalLevel = words[9] % 64
    /\ op.waveform = waveByte % 8

\* where the masks are: the wave selects of the InsData are the low three
\* bits of bytes 74 and 76; its operator fields are the 16-bit words of the
\* file as read; the instrument insToOpl3 builds from it holds every field
\* within its width (key scaling 0..3, multiplier 0..15, feedback 0..7,
\* attack, decay, sustain and release 0..15, output level 0..63, waveform
\* 0..7), each obtained by masking the word.
C26_Opl3WithinWidths ==
    /\ (result.stage # "fetched" /\ result.ins # NULL /\ result.ins.ok) =>
          /\ result.ins.modulatorWaveSelect = call.file[75] % 8
          /\ result.ins.carrierWaveSelect = call.file[77] % 8
          /\ result.ins.modulator.keyScaling = call.modulator[1]
          /\ result.ins.carrier.outputLevel = call.carrier[9]
    /\ result.stage = "insToOpl3" =>
          /\ MaskedFrom(result.opl3.operators[1], call.modulator, call.file[75])
          /\ MaskedFrom(result.opl3.operators[2], call.carrier, call.file[77])
          /\ result.opl3.feedback1 = call.modulator[3] % 8

\* an instrument was built from a file whose modulator words are all 65535
AllOnesInstrumentBuilt ==
    /\ result.stage = "insToOpl3"
    /\ call.modulator[1] = 65535
    /\ result.ins.modulator.keyScaling = 65535
    /\ result.opl3.operators[1].keyScaleLevel = 3
    /\ result.opl3.operators[1].totalLevel = 63
    /\ result.opl3.feedback1 = 7

----------------------------------------------------------------------------
(* C27: the connection bit *)

\* C27 as stated: connection1 is 1 (additive) when the connection word of
\* the modulator is set and 0 (FM) when it is clear.
C27_ConnectionIsFlag ==
    result.stage = "insToOpl3" =>
        result.opl3.connection1 = IF call.modulator[13] # 0 THEN 1 ELSE 0

\* C27: connection1 is 0 (FM) when the thirteenth word of the modulator
\* (frequencyModulation) is not zero and 1 (additive) when it is zero; the
\* carrier's word plays no part.
C27_ConnectionIsInvertedFlag ==
    result.stage = "insToOpl3" =>
        result.opl3.connection1 = IF call.modulator[13] # 0 THEN 0 ELSE 1

\* the modulator's word is set, the carrier's is clear, the connection is FM
C27_Witness ==
    /\ result.stage = "insToOpl3"
    /\ call.modulator[13] = 1
    /\ call.carrier[13] = 0
    /\ result.ins.modulator.frequencyModulation
    /\ result.opl3.connection1 = 0

----------------------------------------------------------------------------
(* C21: the zoom of the scaled draws *)

\* the offsets at which parseCommands finds the opcode bytes of the commands
\* it reads from pos, the offset at which it stops, and whether it stopped
\* at an end marker
RECURSIVE ScanFrom(_, _, _)
ScanFrom(data, pos, starts) ==
    IF eof(data, pos) THEN [starts |-> starts, end |-> pos, terminated |-> FALSE]
    ELSE LET byte == data[pos + 1]
             opcode == ShiftRight(byte, 2)
         IN  IF Bit(byte, 7) THEN [starts |-> starts, end |-> pos, terminated |-> TRUE]
             ELSE IF opcode > 14 THEN [starts |-> starts, end |-> pos, terminated |-> FALSE]
             ELSE LET a == ParseArguments(data, pos + 1, opcode)
                  IN  IF a.ok THEN ScanFrom(data, a.pos, Append(starts, pos))
                      ELSE [starts |-> starts, end |-> pos, terminated |-> FALSE]

\* the scan of subscene s of the parsed file
Scan(s) == ScanFrom(call.file, result.baseOffset + result.subOffsets[s], << >>)

\* the command at offset p carries zoom bytes, and where they are
HasZoom(data, p) ==
    \/ ShiftRight(data[p + 1], 2) = 10
    \/ ShiftRight(data[p + 1], 2) = 11 /\ Bit(BEUint16At(data, p + 1), 14)
ZoomOffset(data, p) == p + 3 + (IF Bit(BEUint16At(data, p + 1), 15) THEN 4 ELSE 0)

\* the scale (in units of 1/512) of the entry a scaled draw command adds to
\* the draw list of a renderer holding the shapes of PolA
ScaleDrawn(cmd) ==
    LET m == [Machine EXCEPT !.renderer = loadShapes(NewRenderer, parseShapes(PolA))]
        after == IF cmd.op = "drawShapeScale" THEN ExecDrawShapeScale(m, cmd, 0)
                 ELSE ExecDrawShapeScaleRotate(m, cmd, 0)
    IN  after.renderer.drawnShapes[1].scale

\* C21: the zoom of every parsed drawShapeScale and drawShapeScaleRotate is
\* the two's-complement value of its two bytes, high byte first, and the
\* entry drawn has scale (zoom + 512) / 512; bytes FF D8 give zoom -40 and
\* scale 472/512.
C21_SignedZoom ==
    Parsed =>
        \A s \in DOMAIN result.streams :
            \A i \in DOMAIN Scan(s).starts :
                LET p == Scan(s).starts[i]
                    cmd == result.streams[s][i]
                    hi == call.file[ZoomOffset(call.file, p) + 1]
                    lo == call.file[ZoomOffset(call.file, p) + 2]
                IN  HasZoom(call.file, p) =>
                        /\ cmd.zoom = hi * 256 + lo - (IF hi >= 128 THEN 65536 ELSE 0)
                        /\ ScaleDrawn(cmd) = cmd.zoom + 512
                        /\ << hi, lo >> = << 255, 216 >> =>
                               cmd.zoom = -40 /\ ScaleDrawn(cmd) = 472

\* a file was parsed that holds both scaled draws with zoom bytes FF D8
C21_Witness ==
    /\ Parsed
    /\ \E i \in DOMAIN result.streams[1] :
           result.streams[1][i].op = "drawShapeScale" /\ result.streams[1][i].zoom = -40
    /\ \E i \in DOMAIN result.streams[1] :
           /\ result.streams[1][i].op = "drawShapeScaleRotate"
           /\ result.streams[1][i].zoom = -40
           /\ ScaleDrawn(result.streams[1][i]) = 472

----------------------------------------------------------------------------
(* C22: re-encoding a parsed command stream *)

U16Bytes(v) == << v \div 256, v % 256 >>
S16Bytes(v) == U16Bytes(IF v < 0 THEN v + 65536 ELSE v)
S8Byte(v) == IF v < 0 THEN v + 256 ELSE v

\* the opcode the encoding gives a command name (markCurPos: the first of
\* its two opcodes)
OpcodeOf(name) ==
    CASE name = "markCurPos" -> 0
      [] name = "refreshScreen" -> 1
      [] name = "waitForSync" -> 2
      [] name = "drawShape" -> 3
      [] name = "setPalette" -> 4
      [] name = "drawCaptionText" -> 6
      [] name = "nop" -> 7
      [] name = "skip3" -> 8
      [] name = "refreshAll" -> 9
      [] name = "drawShapeScale" -> 10
      [] name = "drawShapeScaleRotate" -> 11
      [] name = "copyScreen" -> 12
      [] name = "drawTextAtPos" -> 13
      [] name = "handleKeys" -> 14

RECURSIVE EncodeHandlers(_)
EncodeHandlers(handlers) ==
    IF handlers = << >> THEN << 255 >>
    ELSE << Head(handlers).keyMask >> \o S16Bytes(Head(handlers).target)
         \o EncodeHandlers(Tail(handlers))

\* the bytes of one command: opcode in the upper six bits, low two bits
\* zero, and every optional argument written out with its flag set
EncodeCommand(cmd) ==
    LET code == << OpcodeOf(cmd.op) * 4 >>
        xy == S16Bytes(cmd.x) \o S16Bytes(cmd.y)
    IN  CASE cmd.op = "refreshScreen" -> code \o << cmd.clearMode >>
          [] cmd.op = "waitForSync" -> code \o << cmd.frames >>
          [] cmd.op = "drawShape" -> code \o U16Bytes(32768 + cmd.shapeId) \o xy
          [] cmd.op = "setPalette" -> code \o << cmd.paletteNum, cmd.bufferNum >>
          [] cmd.op = "drawCaptionText" -> code \o U16Bytes(cmd.stringId)
          [] cmd.op = "skip3" -> code \o cmd.skipped
          [] cmd.op = "drawShapeScale" ->
                code \o U16Bytes(32768 + cmd.shapeId) \o xy \o S16Bytes(cmd.zoom)
                     \o << cmd.originX, cmd.originY >>
          [] cmd.op = "drawShapeScaleRotate" ->
                code \o U16Bytes(61440 + cmd.shapeId) \o xy \o S16Bytes(cmd.zoom)
                     \o << cmd.originX, cmd.originY >> \o U16Bytes(cmd.rotationA)
                     \o U16Bytes(cmd.rotationB) \o U16Bytes(cmd.rotationC)
          [] cmd.op = "drawTextAtPos" ->
                IF Defined(cmd, "stringId")
                THEN code \o U16Bytes(cmd.color * 4096 + cmd.stringId)
                          \o << S8Byte(cmd.x \div 8), S8Byte(cmd.y \div 8) >>
                ELSE code \o << 255, 255 >>
          [] cmd.op = "handleKeys" -> code \o EncodeHandlers(cmd.handlers)
          [] OTHER -> code

RECURSIVE EncodeCommands(_)
EncodeCommands(commands) ==
    IF commands = << >> THEN << >>
    ELSE EncodeCommand(Head(commands)) \o EncodeCommands(Tail(commands))

\* the bytes of subscene s from its first opcode up to the end marker
StreamBytes(s) ==
    SubSeq(call.file, result.baseOffset + result.subOffsets[s] + 1, Scan(s).end)

\* the stream of subscene s is the encoder's form: low bits of every opcode
\* byte zero, markCurPos as opcode 0, and the shape word of every draw with
\* all the flags of its opcode set and no other bit above the shape id
Canonical(s) ==
    \A i \in DOMAIN Scan(s).starts :
        LET p == Scan(s).starts[i]
            opcode == ShiftRight(call.file[p + 1], 2)
        IN  /\ call.file[p + 1] % 4 = 0
            /\ opcode # 5
            /\ opcode \in {3, 10} => BEUint16At(call.file, p + 1) \div 2048 = 16
            /\ opcode = 11 => BEUint16At(call.file, p + 1) \div 2048 = 30

\* C22 as stated: for every stream that ends at an end marker, re-encoding
\* the parsed command list gives back the bytes of the stream up to the marker.
C22_ReencodeGivesBytes ==
    Parsed =>
        \A s \in DOMAIN result.streams :
            Scan(s).terminated => EncodeCommands(result.streams[s]) = StreamBytes(s)

\* C22: for every stream that ends at an end marker, parsing the
\* re-encoding of the parsed command list gives the same command list, and
\* the re-encoding equals the bytes of the stream up to the marker exactly
\* when the stream is in the encoder's form; opcode 5, the low two bits of
\* an opcode byte, the unused bits of a shape word and the choice between an
\* absent and an explicit default argument are not kept by the parse.
C22_ReparseGivesCommands ==
    Parsed =>
        \A s \in DOMAIN result.streams :
            Scan(s).terminated =>
                LET encoded == EncodeCommands(result.streams[s])
                    again == parseCommands(encoded \o << 128 >>, 0)
                IN  /\ again.ok
                    /\ again.commands = result.streams[s]
                    /\ ~again.warned
                    /\ Canonical(s) <=> encoded = StreamBytes(s)

\* a stream in the encoder's form was parsed: a drawShapeScaleRotate with
\* every optional argument, then a markCurPos of opcode 0, then the marker
C22_Witness ==
    /\ Parsed
    /\ Scan(1).terminated
    /\ Canonical(1)
    /\ Len(result.streams[1]) = 2
    /\ result.streams[1][1].op = "drawShapeScaleRotate"
    /\ result.streams[1][2].op = "markCurPos"
    /\ EncodeCommands(result.streams[1]) = StreamBytes(1)

----------------------------------------------------------------------------
(* C23: the rasterizer stays inside the clipping rectangle *)

\* the pixel (px, py) is inside the framebuffer and inside the clipping
\* rectangle of g
InsideClip(g, px, py) ==
    /\ px \in 0 .. g.width - 1
    /\ py \in 0 .. g.height - 1
    /\ px - g.crx \in 0 .. g.crw - 1
    /\ py - g.cry \in 0 .. g.crh - 1

\* C23: after any call of drawPoint, drawLine, drawPolygon or drawEllipse,
\* every pixel store of the call was at a pixel inside the framebuffer and
\* inside [0, crw) x [0, crh) relative to the clipping origin, and every
\* pixel outside is as it was before the call.
C23_Clipping ==
    result # NoCall =>
        /\ \A i \in DOMAIN result.g.written :
               InsideClip(call.g, result.g.written[i][1], result.g.written[i][2])
        /\ \A idx \in DOMAIN call.g.pixels :
               result.g.pixels[idx] # call.g.pixels[idx] =>
                   InsideClip(call.g, idx % GfxWidth, idx \div GfxWidth)

\* a polygon of four vertices that reaches beyond the right edge and above
\* the top of a clipping window smaller than the frame was drawn
C23_Witness ==
    /\ result # NoCall
    /\ result.op = "drawPolygon"
    /\ Len(result.vertices) = 4
    /\ call.g.crx = 1
    /\ Len(result.g.written) > 1
    /\ \E i \in DOMAIN result.vertices : result.vertices[i].x >= call.g.crw + 1
    /\ \E i \in DOMAIN result.vertices : result.vertices[i].y < 0

----------------------------------------------------------------------------
(* C24: blending a colour over itself *)

\* the framebuffer the call started from holds the drawn colour, opaque,
\* in every pixel
Prepainted == call.g.pixels = clear(call.g, call.color).pixels

\* C24: drawPolygon with alpha on a framebuffer whose every pixel is the
\* drawn colour, opaque, leaves every pixel as it was, and stores each
\* pixel at most once.
C24_AlphaIdempotent ==
    (result # NoCall /\ result.op = "drawPolygon" /\ result.hasAlpha /\ Prepainted) =>
        /\ result.g.pixels = call.g.pixels
        /\ \A i \in DOMAIN result.g.written : \A j \in DOMAIN result.g.written :
               result.g.written[i] = result.g.written[j] => i = j

\* a polygon of more than two vertices was blended over at least three
\* pixels of a prepainted framebuffer
C24_Witness ==
    /\ result # NoCall
    /\ result.op = "drawPolygon"
    /\ result.hasAlpha
    /\ Prepainted
    /\ Len(result.vertices) > 2
    /\ Len(result.g.written) >= 3
    /\ result.g.pixels = call.g.pixels

----------------------------------------------------------------------------
(* C31: the frames of a subscene partition its command sequence *)

\* the commands of a list of frames, in frame order
RECURSIVE FrameCommandsFrom(_, _)
FrameCommandsFrom(frames, i) ==
    IF i > Len(frames) THEN << >>
    ELSE frames[i].commands \o FrameCommandsFrom(frames, i + 1)

\* C31: for every subscene of every CMD file that parses, the commands of
\* its frames, concatenated in frame order, are exactly the command
\* sequence parseCommands returned for it, and no frame is empty.
C31_FramesPartitionCommands ==
    (result # NoCall /\ result.ok) =>
        \A s \in DOMAIN result.streams :
            LET frames == result.script.subscenes[s].frames
            IN  /\ FrameCommandsFrom(frames, 1) = result.streams[s]
                /\ \A f \in DOMAIN frames : Len(frames[f].commands) > 0

\* a subscene of three commands was split at a markCurPos that is not its
\* first command: the markCurPos heads the second frame
C31_Witness ==
    /\ result # NoCall
    /\ result.ok
    /\ \E s \in DOMAIN result.streams :
          LET frames == result.script.subscenes[s].frames
          IN  /\ Len(result.streams[s]) = 3
              /\ Len(frames) = 2
              /\ frames[1].commands[1].op # "markCurPos"
              /\ frames[2].commands[1].op = "markCurPos"
              /\ Len(frames[2].commands) = 2

----------------------------------------------------------------------------
(* C32: the music in the synth is the music of the installed cutscene *)

\* C32: whenever the MidiPlayer reports music as loaded, the MIDI held by
\* the synth is that of the PRF mapped to the installed cutscene; a cutscene
\* without a mapping has no music loaded.
C32_MusicOfInstalledCutscene ==
    call.midi.loaded => call.synth.midi = getPrfName(call.currentCutsceneName)

----------------------------------------------------------------------------
(* C33: a stopped player has a silent synth *)

\* C33: whenever the player is not playing (never started, or stopped by
\* stop(), nextFrame, prevFrame, goToFrame, reset or loadCutscene), the
\* synth is not playing: no play() has been called on it since the last
\* stop().
C33_StoppedIsSilent == ~isPlaying => ~call.synth.playing

----------------------------------------------------------------------------
(* C34: overlapping loads of music *)

\* the latest loadForCutscene call was for the installed cutscene, nothing
\* is in flight any more and music is reported as loaded
LoadsCompleted ==
    /\ call.tasks = EmptyBag
    /\ call.midi.loaded
    /\ call.lastLoad = getPrfName(call.currentCutsceneName)

\* C34: when the latest loadForCutscene call started while an earlier one
\* was suspended, then once both have completed the instruments and the
\* MIDI in the synth and getCurrentPrfName() are those of the latest call.
C34_LatestLoadWins ==
    (LoadsCompleted /\ call.overlapped) =>
        /\ call.synth.midi = call.lastLoad
        /\ call.synth.instruments = call.lastLoad
        /\ call.midi.currentPrfName = call.lastLoad

\* without an overlap the music loaded is that of the latest call
SequentialLoadsAgree ==
    (LoadsCompleted /\ ~call.overlapped) =>
        /\ call.synth.midi = call.lastLoad
        /\ call.synth.instruments = call.lastLoad
        /\ call.midi.currentPrfName = call.lastLoad

----------------------------------------------------------------------------
(* C35: playback advances by one frame per elapsed tick and loops *)

\* C35: an animation tick runs only while playing; when the frame interval
\* has elapsed it adds one to current_frame and executes that frame on top
\* of the current state if current_frame < total_frames - 1, and otherwise
\* leaves the state of a rebuild of frame 0; a tick before the interval has
\* elapsed changes nothing.  Every tick leaves is_playing set and the
\* callback scheduled; is_playing is only cleared by stop(), a stepping call
\* or loadCutscene.
C35_PlaybackLoops ==
    [][ /\ (lastOp'.name = "animate") =>
              /\ isPlaying /\ isPlaying' /\ animationId'
              /\ (lastOp'.arg = 0) => UNCHANGED << interpreter, renderer, execLog >>
              /\ (lastOp'.arg = 1 /\ Loaded) =>
                    IF interpreter.currentFrame < interpreter.totalFrames - 1
                    THEN LET commands == FrameCommands(input, interpreter.currentFrame + 1)
                         IN  /\ interpreter'.currentFrame = interpreter.currentFrame + 1
                             /\ execLog' = execLog \o commands
                             /\ VmState(Machine)' = VmState(OnTop(commands))
                    ELSE /\ interpreter'.currentFrame = 0
                         /\ execLog' = CommandsThrough(input, 0)
                         /\ VmState(Machine)' = VmState(Replay(input, 0))
        /\ (isPlaying /\ ~isPlaying') =>
              lastOp'.name \in {"stop", "nextFrame", "prevFrame", "goToFrame", "reset",
                                "loadCutscene"} ]_vars

\* playback has looped: a tick has taken a cutscene of at least three frames
\* back to frame 0, and the player is still playing
C35_Witness ==
    /\ Loaded
    /\ lastOp.name = "animate"
    /\ lastOp.arg = 1
    /\ interpreter.totalFrames >= 3
    /\ interpreter.currentFrame = 0
    /\ isPlaying
    /\ animationId

----------------------------------------------------------------------------
(* C36: navigation calls stop playback *)

NavigationCalls == {"nextFrame", "prevFrame", "goToFrame", "reset"}

\* C36: after nextFrame, prevFrame, goToFrame or reset the player is not
\* playing and no animation callback is scheduled; a callback is scheduled
\* only while playing; and while the player is not playing no animation
\* tick runs and current_frame changes only in a navigation call or in
\* loadCutscene (playback has to be started again by play()).
C36_NavigationStops ==
    [][ /\ (lastOp'.name \in NavigationCalls) => (~isPlaying' /\ ~animationId')
        /\ ~isPlaying' => ~animationId'
        /\ ~isPlaying =>
              /\ lastOp'.name # "animate"
              /\ (Loaded /\ interpreter' # interpreter) =>
                     lastOp'.name \in NavigationCalls \cup {"loadCutscene"} ]_vars

\* goToFrame has moved a cutscene of at least three frames to its last
\* frame and left the player stopped with nothing scheduled
C36_Witness ==
    /\ Loaded
    /\ lastOp.name = "goToFrame"
    /\ interpreter.totalFrames >= 3
    /\ interpreter.currentFrame = interpreter.totalFrames - 1
    /\ lastOp.arg = interpreter.currentFrame
    /\ ~isPlaying
    /\ ~animationId

----------------------------------------------------------------------------
(* C37: colours are resolved when the frame is rendered *)

\* the setPalette commands among the first n commands of a log that copy a
\* palette into the half of slot i (slots count from 0) and reach the slot
WritersOf(log, n, i) ==
    { j \in 1 .. n :
        /\ log[j].op = "setPalette"
        /\ Defined(log[j], "paletteNum")
        /\ log[j].paletteNum < Len(input.palettes)
        /\ i \div 16 = DestSlot(log[j])
        /\ i % 16 < Len(input.palettes[log[j].paletteNum + 1]) }

\* slot i of the palette buffer after the first n commands of a log: the
\* colour the last such setPalette copied, black if there was none
SlotAfter(log, n, i) ==
    LET writers == WritersOf(log, n, i)
    IN  IF writers = { } THEN Black
        ELSE LET j == CHOOSE w \in writers : \A v \in writers : v <= w
             IN  input.palettes[log[j].paletteNum + 1][(i % 16) + 1]

\* the clear flag in force when command number `at` of a log was executed:
\* the mode of the last refreshScreen before it, 1 if there was none
FlagBefore(log, at) ==
    LET refreshes == { j \in 1 .. at - 1 : log[j].op = "refreshScreen" }
    IN  IF refreshes = { } THEN 1
        ELSE Opt(log[CHOOSE w \in refreshes : \A v \in refreshes : v <= w], "clearMode", 0)

\* the slot a primitive of drawn shape d samples, by the flag captured at
\* the draw command
SlotSampled(d, primitive) ==
    PaletteIndex(primitive.color, FlagBefore(execLog, d.at))

\* the colours of the paint operations of the rendered frame, one per
\* primitive of every shape of the draw list, in draw order: each is read
\* from the palette buffer left by all the commands executed
RECURSIVE ColoursAtRenderFrom(_)
ColoursAtRenderFrom(i) ==
    IF i > Len(renderer.drawnShapes) THEN << >>
    ELSE LET d == renderer.drawnShapes[i]
             primitives == ShapeOf(renderer, d.shapeId).primitives
         IN  [k \in DOMAIN primitives |->
                 SlotAfter(execLog, Len(execLog), SlotSampled(d, primitives[k]))]
             \o ColoursAtRenderFrom(i + 1)

\* C37: in the frame the player shows, every primitive of every shape on the
\* draw list is painted with the colour that the palette buffer holds after
\* the last command executed, in the slot given by the primitive's colour
\* index and the clear flag that was in force when the shape was drawn:
\* setPalette commands executed after the draw count, refreshScreen
\* commands executed after the draw do not.
C37_ColourAtRenderTime ==
    Loaded =>
        /\ Len(framebuffer) = Len(ColoursAtRenderFrom(1))
        /\ \A i \in DOMAIN framebuffer : framebuffer[i].color = ColoursAtRenderFrom(1)[i]

\* a shape on the draw list samples a slot that a setPalette executed after
\* its draw command has changed, and a refreshScreen executed after its draw
\* command has set another clear flag than the one it was drawn under, which
\* would select a slot of another colour
C37_Witness ==
    /\ Loaded
    /\ \E i \in DOMAIN renderer.drawnShapes :
          LET d == renderer.drawnShapes[i]
              primitive == ShapeOf(renderer, d.shapeId).primitives[1]
              slot == SlotSampled(d, primitive)
              other == PaletteIndex(primitive.color, interpreter.clearScreen)
          IN  /\ SlotAfter(execLog, Len(execLog), slot) # SlotAfter(execLog, d.at, slot)
              /\ interpreter.clearScreen # FlagBefore(execLog, d.at)
              /\ SlotAfter(execLog, Len(execLog), other) # SlotAfter(execLog, Len(execLog), slot)
              /\ framebuffer # << >>

----------------------------------------------------------------------------
(* C38: streams that end inside a command *)

\* no argument of a parsed command is missing: every field its opcode reads
\* with readUint8 or readInt8 holds a number
Complete(cmd) ==
    /\ cmd.op = "refreshScreen" => Defined(cmd, "clearMode")
    /\ cmd.op = "waitForSync" => Defined(cmd, "frames")
    /\ cmd.op = "setPalette" => (Defined(cmd, "paletteNum") /\ Defined(cmd, "bufferNum"))
    /\ cmd.op = "skip3" => \A k \in 1..3 : cmd.skipped[k] # UNDEFINED
    /\ cmd.op \in {"drawShapeScale", "drawShapeScaleRotate"} =>
          (Defined(cmd, "originX") /\ Defined(cmd, "originY"))
    /\ (cmd.op = "drawTextAtPos" /\ Defined(cmd, "x")) => (cmd.x # NaN /\ cmd.y # NaN)

\* C38: parseCMD returns a script only if no subscene's stream ends inside
\* a command: the reads of the last command of each stream stop within the
\* buffer and every command returned has all the arguments of its opcode.
\* Every stream cut after an opcode byte or inside its arguments, a
\* handleKeys list without its 0xFF terminator included, is rejected.
C38_TruncatedStreamRejected ==
    (result # NoCall /\ result.ok) =>
        /\ call.file \notin TruncatedCmdFiles
        /\ \A s \in DOMAIN result.streams :
              /\ Scan(s).end <= Len(call.file)
              /\ \A i \in DOMAIN result.streams[s] : Complete(result.streams[s][i])

\* the part that holds: a stream that ends inside a 16-bit argument, or
\* inside a handleKeys list, is rejected with an error
WordTruncationRejected ==
    (/\ result # NoCall
     /\ \E c \in FullCommands \ { << 4, 2 >>, << 8, 5 >>, << 16, 0, 1 >>, << 32, 1, 2, 3 >> } :
          \E before \in { << >>, << 28 >> } :
             \E k \in 1 .. Len(c) - 1 :
                /\ call.file = << 0, 0 >> \o before \o SubSeq(c, 1, k)
                /\ ~(c[1] = 40 /\ k >= 9)
                /\ ~(c[1] = 52 /\ k >= 3))
    => ~result.ok


----------------------------------------------------------------------------
(* MidiPlayer.loadAndInjectInstruments / setChannelOctaveOffset: the note
   offset injected for one channel *)

\* prf.adlibNotes[slot] of the channel: absent (undefined, the empty sequence)
\* or a semitone count
PrfNotes == { << >>, << -24 >>, << -12 >>, << 0 >>, << 12 >> }

\* the highest note the MIDI file plays on the channel
MidiMaxNotes == {0, 60, 95, 96, 101, 107, 108, 127}

\* the octave deltas the debug interface offers
OctaveOffsets == -4 .. 4

\* prf.adlibNotes[slot] || 0
NoteOrZero(note) == IF note = << >> THEN 0 ELSE note[1]

\* calculateOctaveWrapOffset of the MidiPlayer that analysed the MIDI file
calculateOctaveWrapOffset(maxNote) ==
    LET octave == maxNote \div 12
    IN  IF octave <= 7 THEN 0
        ELSE LET wrapOctaves == (octave \div 8) * 8
             IN  (0 - wrapOctaves) * 12

\* an INS file of the given mode, parsed
InjectedIns(mode) ==
    parseIns(InsFile(mode, << 1, 1, 6, 15, 4, 1, 2, 7, 20, 0, 1, 0, 1 >>,
                     [i \in 1 .. 13 |-> 0], 0, 0, 80))

\* what synth.setInstrument(bankId, slot, opl3Instrument) is called with
injectInstrument(adlibNote, channelOctaveOffset, mode) ==
    LET noteOffset == NoteOrZero(adlibNote) + (channelOctaveOffset * 12)
    IN  [ percussive |-> mode # 0,
          opl3 |-> insToOpl3(InjectedIns(mode), noteOffset, 0) ]

InjectInit ==
    /\ input = NULL
    /\ interpreter = NULL
    /\ renderer = NewRenderer
    /\ framebuffer = << >>
    /\ isPlaying = FALSE
    /\ animationId = FALSE
    /\ execLog = << >>
    /\ threw = FALSE
    /\ lastOp = [name |-> "new", arg |-> 0]
    /\ call \in [adlibNote : PrfNotes, maxNote : MidiMaxNotes, mode : {0, 1}]
    /\ result = [stage |-> "idle", channelOctaveOffset |-> 0, injected |-> NULL]

\* loadForCutscene: the octave offsets are zeroed, then loadAndInjectInstruments
\* injects the slot's instrument
LoadAndInjectInstruments ==
    /\ result' = [stage |-> "loaded", channelOctaveOffset |-> 0,
                  injected |-> injectInstrument(call.adlibNote, 0, call.mode)]
    /\ lastOp' = [name |-> "loadAndInjectInstruments", arg |-> 0]
    /\ InsUnchanged

\* setChannelOctaveOffset on a channel with an instrument: the offset is
\* stored and setChannelInstrument injects again
SetChannelOctaveOffset(octaveOffset) ==
    /\ result.stage = "loaded"
    /\ result' = [stage |-> "loaded", channelOctaveOffset |-> octaveOffset,
                  injected |-> injectInstrument(call.adlibNote, octaveOffset, call.mode)]
    /\ lastOp' = [name |-> "setChannelOctaveOffset", arg |-> octaveOffset]
    /\ InsUnchanged

InjectNext ==
    \/ LoadAndInjectInstruments
    \/ \E octaveOffset \in OctaveOffsets : SetChannelOctaveOffset(octaveOffset)

SpecInject == InjectInit /\ [][InjectNext]_vars

----------------------------------------------------------------------------
(* C39 *)

\* C39: when loadAndInjectInstruments has injected a channel's instrument, its
\* note offset is the PRF note offset reduced by 8 * 12 * floor(o / 8) if the
\* highest note played on the channel lies in octave o = floor(note / 12) >= 8,
\* and the PRF note offset unchanged if o <= 7.
C39_OctaveWrapInjected ==
    lastOp.name = "loadAndInjectInstruments" =>
        LET o == call.maxNote \div 12
            prfOffset == NoteOrZero(call.adlibNote)
        IN  result.injected.opl3.noteOffset1 =
                IF o >= 8 THEN prfOffset - (8 * 12 * (o \div 8)) ELSE prfOffset

\* the reduction the claim names is the one calculateOctaveWrapOffset computed
WrapOffsetIsReduction ==
    LET o == call.maxNote \div 12
    IN  calculateOctaveWrapOffset(call.maxNote) =
            IF o >= 8 THEN 0 - (8 * 12 * (o \div 8)) ELSE 0

\* loadAndInjectInstruments injects the PRF note offset whatever the MIDI plays
InjectedIsPrfOffset ==
    lastOp.name = "loadAndInjectInstruments" =>
        result.injected.opl3.noteOffset1 = NoteOrZero(call.adlibNote)

\* every injection carries the PRF note offset plus the channel's octave delta
InjectedFollowsOctaveOffset ==
    result.stage = "loaded" =>
        result.injected.opl3.noteOffset1 =
            NoteOrZero(call.adlibNote) + (12 * result.channelOctaveOffset)


----------------------------------------------------------------------------
(* C40 *)

\* C40: the instrument insToOpl3 makes has rhythmMode 0 when the INS mode
\* is 0 (melodic) and a rhythmMode in 1..7 when the INS mode is 1 (percussion).
C40_RhythmModeFollowsInsMode ==
    result.stage = "insToOpl3" =>
        /\ result.ins.mode = 0 => result.opl3.rhythmMode = 0
        /\ result.ins.mode = 1 => result.opl3.rhythmMode \in 1 .. 7

\* insToOpl3 gives every instrument rhythmMode 0
RhythmModeIsMelodic ==
    result.stage = "insToOpl3" => result.opl3.rhythmMode = 0

\* the INS mode reaches the synth as the bank of the injected instrument
PercussiveBankFollowsInsMode ==
    result.stage = "loaded" =>
        /\ result.injected.percussive = (call.mode # 0)
        /\ result.injected.opl3.rhythmMode = 0

====
